---------------------------- MODULE Spec2Model ----------------------------
(***************************************************************************)
(* A model of sherpa/algorithms/core.py: the suggestion algorithms         *)
(* (Repeat, RandomSearch, Iterate, GridSearch, LocalSearch, Genetic) and   *)
(* the MedianStoppingRule, driven by an orchestrator that calls            *)
(* get_suggestion / load / should_trial_stop and appends rows to the       *)
(* results table.                                                          *)
(*                                                                         *)
(* An object is a record of its fields, named as in the source.  A method  *)
(* is an operator that takes the object (self), the call's arguments and   *)
(* the outcome of every random draw the call makes, and yields the         *)
(* updated object and the returned value: [self |-> ..., ret |-> ...].     *)
(***************************************************************************)
EXTENDS Integers, Sequences, FiniteSets, TLC

VARIABLES
    alg,         \* the Algorithm instance the orchestrator drives
    ret,         \* the value its last get_suggestion call returned
    out,         \* every value get_suggestion returned so far, in call order
    twin,        \* a second instance: constructed like alg, then load()-ed
    twinOut,     \* every value the twin's get_suggestion returned so far
    parameters,  \* the study's list of Parameter objects
    results,     \* the results table: a sequence of rows, append-only
    trials       \* the trials the orchestrator allocated, by Trial-ID

vars == <<alg, ret, out, twin, twinOut, parameters, results, trials>>

(***************************************************************************)
(* Bounds of the model.                                                    *)
(***************************************************************************)
MaxCalls == 6
MaxTrials == 2
MaxRepeat == 2
MaxListLen == 3
MaxGridPoints == 2
MaxObjective == 2
MaxIterations == 1
MaxConcurrent == 2
MaxRows == 3
MaxRepeatCalls == 4
MaxLocalCalls == 5
MaxLocalRows == 2
MaxLocalRaises == 1
MaxShortStudyCalls == 3
MaxKnownValue == 8
MaxKnownSteps == 2
MaxMedianRows == 3
MaxGenerations == 3
MaxPBTCalls == 10
MaxGridK == 9
MaxLogGridK == 4
MaxGeneticCalls == 3
MaxBestRows == 3

(***************************************************************************)
(* Values.                                                                 *)
(***************************************************************************)
\* `return None` from get_suggestion: the Stop sentinel.
Stop == [sentinel |-> "None"]
\* AlgorithmState.WAIT.
Wait == [sentinel |-> "WAIT"]
\* No call made yet / no twin constructed yet.
NoCall == [sentinel |-> "NoCall"]
NoTwin == [cls |-> "NoTwin"]
\* The empty mapping {}.
EmptyDict == [k \in {} |-> 0]

\* The "runs indefinitely" cap of RandomSearch, 2**32 in the source.  TLC's
\* integers end at 2**31 - 1, which stands in for it: the cap is only ever
\* compared with the counter i, and i stays below both.
Unbounded == 2147483647

SeqToSet(s) == {s[k] : k \in 1..Len(s)}

\* An Objective is a float: <<v>> for the number v, <<>> for not-a-number.
NaN == <<>>
Num(v) == <<v>>
IsNaN(x) == x = NaN
Val(x) == x[1]

(***************************************************************************)
(* Python floats (IEEE 754 doubles), for non-negative values.  A float is  *)
(* written [bits, scale]: the binary digits, most significant first and    *)
(* without leading zeros, of a natural number N, the float being           *)
(* N / 2^scale; scale is as small as it can be, and zero is [<<>>, 0].     *)
(* Every operation computes the exact result and rounds it to Precision    *)
(* significant bits, to nearest, ties to even.                             *)
(***************************************************************************)
\* The number of significant bits of a double.
Precision == 53

\* The binary digits of a natural number n < 2^30, most significant first.
NatToBits(n) ==
    LET len == CHOOSE l \in 0..30 : n < 2^l /\ (l = 0 \/ 2^(l - 1) <= n)
    IN  [k \in 1..len |-> (n \div 2^(len - k)) % 2]

\* The natural number (< 2^30) of a digit sequence.
RECURSIVE BitsToNat(_)
BitsToNat(bits) ==
    IF bits = <<>> THEN 0
    ELSE IF Len(bits) = 1 THEN bits[1]
    ELSE LET half == Len(bits) \div 2
             right == SubSeq(bits, half + 1, Len(bits))
         IN  BitsToNat(SubSeq(bits, 1, half)) * 2^Len(right) + BitsToNat(right)

StripLeading(bits) ==
    IF \A k \in 1..Len(bits) : bits[k] = 0 THEN <<>>
    ELSE LET first == CHOOSE k \in 1..Len(bits) :
                          bits[k] = 1 /\ \A q \in 1..(k - 1) : bits[q] = 0
         IN  SubSeq(bits, first, Len(bits))

\* bits + 1.
Increment(bits) ==
    IF \A k \in 1..Len(bits) : bits[k] = 1
    THEN <<1>> \o [k \in 1..Len(bits) |-> 0]
    ELSE LET last == CHOOSE k \in 1..Len(bits) :
                         bits[k] = 0 /\ \A q \in (k + 1)..Len(bits) : bits[q] = 1
         IN  [k \in 1..Len(bits) |->
                 IF k < last THEN bits[k] ELSE IF k = last THEN 1 ELSE 0]

\* The float N / 2^scale with the least scale (not below zero).
Canonical(bits, scale) ==
    IF bits = <<>> THEN [bits |-> <<>>, scale |-> 0]
    ELSE LET last == CHOOSE k \in 1..Len(bits) :
                         bits[k] = 1 /\ \A q \in (k + 1)..Len(bits) : bits[q] = 0
             drop == IF scale <= 0 THEN 0
                     ELSE IF Len(bits) - last < scale THEN Len(bits) - last
                     ELSE scale
         IN  [bits |-> SubSeq(bits, 1, Len(bits) - drop), scale |-> scale - drop]

\* The double nearest to the exact value N / 2^scale, where sticky says
\* that the exact value has further non-zero digits after those of N.
RoundToDouble(digits, scale, sticky) ==
    LET bits == StripLeading(digits)
        n == Len(bits)
    IN  IF n <= Precision THEN Canonical(bits, scale)
        ELSE LET kept == SubSeq(bits, 1, Precision)
                 rest == sticky \/ \E k \in (Precision + 2)..n : bits[k] = 1
                 up == bits[Precision + 1] = 1 /\ (rest \/ kept[Precision] = 1)
             IN  Canonical(IF up THEN Increment(kept) ELSE kept,
                           scale - (n - Precision))

\* 2^e modulo b.
RECURSIVE PowerOfTwoMod(_, _)
PowerOfTwoMod(e, b) ==
    IF e = 0 THEN 1 % b
    ELSE LET h == PowerOfTwoMod(e \div 2, b)
         IN  (((h * h) % b) * (IF e % 2 = 1 THEN 2 ELSE 1)) % b

\* What is left of a after n binary digits after the point of a / b have
\* been produced by long division, 0 < a < b: a * 2^n modulo b.
FractionRest(a, b, n) == (a * PowerOfTwoMod(n, b)) % b

\* The first n binary digits after the point of a / b, 0 < a < b.
FractionBits(a, b, n) ==
    [k \in 1..n |-> (2 * FractionRest(a, b, k - 1)) \div b]

\* The number of zeros after the point before the first one of a / b.
RECURSIVE LeadingZeros(_, _)
LeadingZeros(a, b) == IF 2 * a >= b THEN 0 ELSE 1 + LeadingZeros(2 * a, b)

\* a / b for integers 0 < a < b.
FloatDiv(a, b) ==
    LET n == LeadingZeros(a, b) + Precision + 1
    IN  RoundToDouble(FractionBits(a, b, n), n, FractionRest(a, b, n) # 0)

\* bits * v + carry, for natural numbers v, carry < 2^15; the digits are
\* multiplied 15 at a time.
RECURSIVE TimesNat(_, _, _)
TimesNat(bits, v, carry) ==
    IF Len(bits) <= 15 THEN NatToBits(BitsToNat(bits) * v + carry)
    ELSE LET cut == Len(bits) - 15
             t == BitsToNat(SubSeq(bits, cut + 1, Len(bits))) * v + carry
             low == NatToBits(t % 2^15)
         IN  TimesNat(SubSeq(bits, 1, cut), v, t \div 2^15)
                 \o [k \in 1..(15 - Len(low)) |-> 0] \o low

\* v * x for a natural number v and a float x.
FloatTimes(v, x) == RoundToDouble(TimesNat(x.bits, v, 0), x.scale, FALSE)

\* The digits of x before the point, as a natural number: int(x).
FloatInt(x) ==
    IF Len(x.bits) <= x.scale THEN 0
    ELSE BitsToNat(SubSeq(x.bits, 1, Len(x.bits) - x.scale))

\* The scale digits of x after the point.
FloatFraction(x) ==
    IF Len(x.bits) >= x.scale
    THEN SubSeq(x.bits, Len(x.bits) - x.scale + 1, Len(x.bits))
    ELSE [k \in 1..(x.scale - Len(x.bits)) |-> 0] \o x.bits

\* x + v for a float x and a natural number v.
FloatPlus(x, v) ==
    RoundToDouble(NatToBits(FloatInt(x) + v) \o FloatFraction(x), x.scale, FALSE)

\* a + b + carry for digit sequences a and b and carry < 2^15; the digits
\* are added 15 at a time.
RECURSIVE AddBits(_, _, _)
AddBits(a, b, carry) ==
    IF Len(a) <= 15 /\ Len(b) <= 15
    THEN NatToBits(BitsToNat(a) + BitsToNat(b) + carry)
    ELSE LET cutA == IF Len(a) > 15 THEN Len(a) - 15 ELSE 0
             cutB == IF Len(b) > 15 THEN Len(b) - 15 ELSE 0
             t == BitsToNat(SubSeq(a, cutA + 1, Len(a)))
                      + BitsToNat(SubSeq(b, cutB + 1, Len(b))) + carry
             low == NatToBits(t % 2^15)
         IN  AddBits(SubSeq(a, 1, cutA), SubSeq(b, 1, cutB), t \div 2^15)
                 \o [k \in 1..(15 - Len(low)) |-> 0] \o low

\* x * y for digit sequences x and y; y is taken 15 digits at a time.
RECURSIVE MulBits(_, _)
MulBits(x, y) ==
    IF Len(y) <= 15 THEN TimesNat(x, BitsToNat(y), 0)
    ELSE LET cut == Len(y) - 15
         IN  AddBits(MulBits(x, SubSeq(y, 1, cut)) \o [k \in 1..15 |-> 0],
                     TimesNat(x, BitsToNat(SubSeq(y, cut + 1, Len(y))), 0),
                     0)

\* x * y for floats x and y.
FloatMul(x, y) ==
    RoundToDouble(MulBits(x.bits, y.bits), x.scale + y.scale, FALSE)

\* The 18 binary digits of a natural number n < 2^18, most significant first.
Word(n) == [k \in 1..18 |-> (n \div 2^(18 - k)) % 2]

\* The double (hi * 2^36 + mid * 2^18 + lo) / 2^scale.
Double(hi, mid, lo, scale) ==
    Canonical(StripLeading(Word(hi) \o Word(mid) \o Word(lo)), scale)

\* float(v) for a natural number v < 2^30.
FloatOfNat(v) == Canonical(NatToBits(v), 0)

\* The float nearest to num / den for natural numbers num and den > 0: what
\* a literal such as 0.8 or 1.2 denotes.
FloatOf(num, den) ==
    IF num % den = 0 THEN FloatOfNat(num \div den)
    ELSE IF num < den THEN FloatDiv(num, den)
    ELSE RoundToDouble(NatToBits(num \div den)
                           \o FractionBits(num % den, den, Precision + 1),
                       Precision + 1,
                       FractionRest(num % den, den, Precision + 1) # 0)

\* numpy.clip(x, lo, hi) for a float x and natural numbers lo <= hi: a
\* float.
FloatClip(x, lo, hi) ==
    IF FloatInt(x) < lo THEN FloatOfNat(lo)
    ELSE IF FloatInt(x) > hi \/ (FloatInt(x) = hi /\ x.scale > 0)
    THEN FloatOfNat(hi)
    ELSE x

(***************************************************************************)
(* Parameters (sherpa.core.Parameter, consumed only): name, kind, range,   *)
(* and for Continuous and Discrete the scale, "linear" or "log".  A value  *)
(* of a Continuous parameter is written as a float, whole or not (Python   *)
(* does not tell 3 from 3.0 in == or in a dict comparison); the values of  *)
(* a Discrete parameter are integers; bounds are natural numbers.          *)
(***************************************************************************)
Choice(name, range) == [name |-> name, kind |-> "Choice", range |-> range]
Ordinal(name, range) == [name |-> name, kind |-> "Ordinal", range |-> range]
Discrete(name, range, scale) ==
    [name |-> name, kind |-> "Discrete", range |-> range, scale |-> scale]
Continuous(name, range, scale) ==
    [name |-> name, kind |-> "Continuous", range |-> range, scale |-> scale]

\* The values Parameter.sample() can return; of the floats a Continuous
\* parameter can return, the whole ones.
SampleSpace(p) ==
    IF p.kind \in {"Choice", "Ordinal"}
    THEN SeqToSet(p.range)
    ELSE IF p.kind = "Continuous"
    THEN {FloatOfNat(v) : v \in p.range[1]..p.range[2]}
    ELSE p.range[1]..p.range[2]

Names(params) == {params[k].name : k \in 1..Len(params)}
ParamOf(params, name) ==
    params[CHOOSE k \in 1..Len(params) : params[k].name = name]

\* {p.name: p.sample() for p in parameters}: every mapping it can produce.
SampledConfigs(params) ==
    {c \in [Names(params) -> UNION {SampleSpace(params[k]) : k \in 1..Len(params)}] :
        \A nm \in Names(params) : c[nm] \in SampleSpace(ParamOf(params, nm))}

(***************************************************************************)
(* Algorithm (base class).                                                 *)
(***************************************************************************)
\* Algorithm.load: `pass`.
Algorithm_load(self, num_trials) == self

\* Series.idxmin() / idxmax() of the Objective column: not-a-number entries
\* are skipped, the first label holding the optimum is returned, a column of
\* nothing but not-a-number gives nan (written 0; labels here start at 1).
IdxBest(rows, lower_is_better) ==
    LET valid == {k \in 1..Len(rows) : ~IsNaN(rows[k].Objective)}
        best == {k \in valid :
                    \A q \in valid :
                        IF lower_is_better
                        THEN Val(rows[k].Objective) <= Val(rows[q].Objective)
                        ELSE Val(rows[k].Objective) >= Val(rows[q].Objective)}
    IN  IF valid = {} THEN 0 ELSE CHOOSE k \in best : \A q \in best : k <= q

\* results.loc[best_idx, :].to_dict() after pop('Status').
WithoutStatus(row) == [k \in DOMAIN row \ {"Status"} |-> row[k]]

\* What idxmin() / idxmax() of a column without entries raises (a frame
\* without an Objective column raises KeyError one step earlier).
ValueError == [exception |-> "ValueError"]

\* Algorithm.get_best_result.
Algorithm_get_best_result(self, params, rows, lower_is_better) ==
    IF rows = <<>>
    THEN [self |-> self, ret |-> ValueError]
    ELSE LET best_idx == IdxBest(rows, lower_is_better)
         IN  IF best_idx = 0
             THEN [self |-> self, ret |-> EmptyDict]
             ELSE [self |-> self, ret |-> WithoutStatus(rows[best_idx])]

(***************************************************************************)
(* RandomSearch.                                                           *)
(***************************************************************************)
\* __init__; max_num_trials = 0 stands for None as well: `max_num_trials or
\* 2**32` treats both alike.
RandomSearch(max_num_trials, repeat) ==
    [cls |-> "RandomSearch",
     i |-> 0,
     n |-> IF max_num_trials = 0 THEN Unbounded ELSE max_num_trials,
     m |-> repeat,
     j |-> 0,
     theta_i |-> EmptyDict]

\* A variant that never reuses the current configuration: it samples on
\* every call.
RandomSearch_get_suggestion_Resample(self, sample) ==
    LET s1 == [self EXCEPT !.j = 0, !.theta_i = sample, !.i = self.i + 1]
    IN  IF s1.i > s1.n
        THEN [self |-> s1, ret |-> Stop]
        ELSE [self |-> [s1 EXCEPT !.j = 1], ret |-> s1.theta_i]

\* A variant whose cap check is `i >= n`.
RandomSearch_get_suggestion_CapOffByOne(self, sample) ==
    LET j1 == IF self.j = self.m THEN 0 ELSE self.j
        s1 == IF j1 = 0
              THEN [self EXCEPT !.j = j1, !.theta_i = sample, !.i = self.i + 1]
              ELSE [self EXCEPT !.j = j1]
    IN  IF s1.i >= s1.n
        THEN [self |-> s1, ret |-> Stop]
        ELSE [self |-> [s1 EXCEPT !.j = s1.j + 1], ret |-> s1.theta_i]

\* get_suggestion; `sample` is what {p.name: p.sample() ...} yields if drawn.
RandomSearch_get_suggestion(self, sample) ==
    LET j1 == IF self.j = self.m THEN 0 ELSE self.j
        s1 == IF j1 = 0
              THEN [self EXCEPT !.j = j1, !.theta_i = sample, !.i = self.i + 1]
              ELSE [self EXCEPT !.j = j1]
    IN  IF s1.i > s1.n
        THEN [self |-> s1, ret |-> Stop]
        ELSE [self |-> [s1 EXCEPT !.j = s1.j + 1], ret |-> s1.theta_i]

(***************************************************************************)
(* Iterate.                                                                *)
(***************************************************************************)
Iterate(hp_iter) == [cls |-> "Iterate", hp_iter |-> hp_iter, count |-> 0]

Iterate_get_suggestion(self) ==
    IF self.count >= Len(self.hp_iter)
    THEN [self |-> self, ret |-> Stop]
    ELSE [self |-> [self EXCEPT !.count = self.count + 1],
          ret |-> self.hp_iter[self.count + 1]]

\* A variant of load that rewinds the cursor instead of setting it.
Iterate_load_Rewind(self, num_trials) == [self EXCEPT !.count = 0]

Iterate_load(self, num_trials) == [self EXCEPT !.count = num_trials]

\* A configuration whose key order matters is written as its items in
\* insertion order, <<<<name, value>>, ...>>.
Keys(hp) == [k \in 1..Len(hp) |-> hp[k][1]]
Has(hp, pname) == \E k \in 1..Len(hp) : hp[k][1] = pname
Lookup(hp, pname) == hp[CHOOSE k \in 1..Len(hp) : hp[k][1] = pname][2]

\* The outcomes of get_parameters: the list it returns, the Exception of its
\* inner loop, the IndexError of hp_iter[0] on an empty list.
Returned(params) == [parameters |-> params]
NotFound(pname, i) == [exception |-> "Exception", pname |-> pname, i |-> i]
IndexError == [exception |-> "IndexError"]

\* The inner loop of get_parameters over the configurations before index n
\* (0-based), none of which lacks pname: prange.
RECURSIVE UniqueValues(_, _, _)
UniqueValues(hp_iter, pname, n) ==
    IF n = 0
    THEN <<>>
    ELSE LET prange == UniqueValues(hp_iter, pname, n - 1)
             value == Lookup(hp_iter[n], pname)
         IN  IF value \in SeqToSet(prange) THEN prange ELSE Append(prange, value)

\* The outer loop of get_parameters from the k-th key on, `parameters`
\* holding the Parameters of the keys before it.
RECURSIVE GetParametersFrom(_, _, _, _)
GetParametersFrom(hp_iter, keys, k, params) ==
    IF k > Len(keys)
    THEN Returned(params)
    ELSE LET pname == keys[k]
             lacking == {i \in 1..Len(hp_iter) : ~Has(hp_iter[i], pname)}
         IN  IF lacking # {}
             THEN NotFound(pname,
                           (CHOOSE i \in lacking : \A j \in lacking : i <= j) - 1)
             ELSE GetParametersFrom(hp_iter, keys, k + 1,
                      Append(params,
                             Choice(pname,
                                    UniqueValues(hp_iter, pname, Len(hp_iter)))))

\* A variant that keeps the last occurrence of a value instead of the first.
Iterate_get_parameters_LastSeen(self) ==
    IF self.hp_iter = <<>>
    THEN IndexError
    ELSE LET keys == Keys(self.hp_iter[1])
             r == GetParametersFrom(self.hp_iter, keys, 1, <<>>)
             RECURSIVE last_seen(_, _)
             last_seen(pname, n) ==
                 IF n = 0
                 THEN <<>>
                 ELSE LET value == Lookup(self.hp_iter[n], pname)
                      IN  Append(SelectSeq(last_seen(pname, n - 1),
                                           LAMBDA v : v # value),
                                 value)
         IN  IF "exception" \in DOMAIN r
             THEN r
             ELSE Returned([k \in 1..Len(keys) |->
                      Choice(keys[k],
                             last_seen(keys[k], Len(self.hp_iter)))])

Iterate_get_parameters(self) ==
    IF self.hp_iter = <<>>
    THEN IndexError
    ELSE GetParametersFrom(self.hp_iter, Keys(self.hp_iter[1]), 1, <<>>)

(***************************************************************************)
(* GridSearch.                                                             *)
(***************************************************************************)
\* sorted() order of parameter names: the names of the model are single
\* lower-case letters, which sorted() puts in alphabetical order.
NameOrder ==
    <<"a", "b", "c", "d", "e", "f", "g", "h", "i", "j", "k", "l", "m",
      "n", "o", "p", "q", "r", "s", "t", "u", "v", "w", "x", "y", "z">>

\* sorted(param_dict): its keys in alphabetical order.
RECURSIVE SortedKeys(_, _)
SortedKeys(keys, order) ==
    IF order = <<>> THEN <<>>
    ELSE IF Head(order) \in keys
         THEN <<Head(order)>> \o SortedKeys(keys, Tail(order))
         ELSE SortedKeys(keys, Tail(order))

\* int(): truncation toward zero of num / den, den > 0.
Trunc(num, den) ==
    IF num >= 0 THEN num \div den ELSE 0 - ((0 - num) \div den)

\* The i-th (0-based) linear-scale grid value of p, for a range of natural
\* numbers: v = range[1] - range[0]; v *= (i + 1) / (num_grid_points + 1);
\* v += range[0]; and int(v) for Discrete.
GridValue(p, i, num_grid_points) ==
    LET v == FloatPlus(FloatTimes(p.range[2] - p.range[1],
                                  FloatDiv(i + 1, num_grid_points + 1)),
                       p.range[1])
    IN  IF p.kind = "Discrete" THEN FloatInt(v) ELSE v

\* numpy.log10 of a bound that is a power of ten below 10^10: the exponent,
\* which numpy.log10 gives exactly.  The log-scale bounds of the model are
\* such powers.
Log10(n) == CHOOSE e \in 0..9 : 10^e = n

\* 10**v at the exponents v that are not whole numbers and arise from bounds
\* 1, 10, 100, 1000 and up to five grid points: the doubles the power
\* function returns there.
Pow10Table ==
    {
     [exponent |-> Double(87381, 87381, 87381, 55),
      power |-> Double(96193, 181614, 30975, 52)],
     [exponent |-> Double(52428, 209715, 52429, 54),
      power |-> Double(103867, 146869, 24659, 52)],
     [exponent |-> Double(0, 0, 1, 2),
      power |-> Double(58270, 172938, 140167, 51)],
     [exponent |-> Double(87381, 87381, 87381, 54),
      power |-> Double(70596, 135246, 28751, 51)],
     [exponent |-> Double(52428, 209715, 52429, 53),
      power |-> Double(82309, 129653, 52319, 51)],
     [exponent |-> Double(0, 0, 1, 1),
      power |-> Double(103621, 134838, 154451, 51)],
     [exponent |-> Double(78643, 52428, 209715, 53),
      power |-> Double(130451, 198612, 159199, 51)],
     [exponent |-> Double(19660, 209715, 52429, 51),
      power |-> Double(130451, 198612, 159201, 51)],
     [exponent |-> Double(87381, 87381, 87381, 53),
      power |-> Double(76047, 207473, 221687, 50)],
     [exponent |-> Double(0, 0, 3, 2),
      power |-> Double(46067, 356, 107283, 49)],
     [exponent |-> Double(52428, 209715, 52429, 52),
      power |-> Double(103376, 13453, 35223, 50)],
     [exponent |-> Double(109226, 174762, 174763, 53),
      power |-> Double(27905, 189569, 18427, 48)],
     [exponent |-> Double(76458, 174762, 174763, 52),
      power |-> Double(120242, 30409, 169793, 49)],
     [exponent |-> Double(78643, 52428, 209715, 52),
      power |-> Double(64917, 59025, 48179, 48)],
     [exponent |-> Double(19660, 209715, 52429, 50),
      power |-> Double(129834, 118050, 96363, 49)],
     [exponent |-> Double(0, 0, 5, 2),
      power |-> Double(72838, 85101, 44137, 48)],
     [exponent |-> Double(87381, 87381, 87381, 52),
      power |-> Double(88245, 169057, 167009, 48)],
     [exponent |-> Double(45875, 52428, 209715, 51),
      power |-> Double(102886, 227602, 130933, 48)],
     [exponent |-> Double(0, 0, 3, 1),
      power |-> Double(129526, 234084, 61991, 48)],
     [exponent |-> Double(52428, 209715, 52429, 51),
      power |-> Double(81532, 91364, 230573, 47)],
     [exponent |-> Double(54613, 87381, 87381, 51),
      power |-> Double(95059, 193806, 80499, 47)],
     [exponent |-> Double(109226, 174762, 174763, 52),
      power |-> Double(95059, 193806, 80503, 47)],
     [exponent |-> Double(0, 0, 7, 2),
      power |-> Double(115167, 131963, 6063, 47)],
     [exponent |-> Double(29491, 52428, 209715, 50),
      power |-> Double(16152, 133174, 13695, 44)],
     [exponent |-> Double(117964, 209715, 52429, 52),
      power |-> Double(32305, 4204, 27391, 45)],
     [exponent |-> Double(60074, 174762, 174763, 51),
      power |-> Double(69764, 80706, 177141, 46)],
     [exponent |-> Double(70997, 87381, 87381, 51),
      power |-> Double(37575, 173343, 3907, 44)],
     [exponent |-> Double(36044, 209715, 52429, 50),
      power |-> Double(81146, 139317, 125763, 45)],
     [exponent |-> Double(0, 0, 9, 2),
      power |-> Double(91047, 237448, 120707, 45)],
     [exponent |-> Double(38229, 87381, 87381, 50),
      power |-> Double(55153, 138429, 6075, 44)],
     [exponent |-> Double(76458, 174762, 174763, 51),
      power |-> Double(55153, 138429, 6079, 44)],
     [exponent |-> Double(78643, 52428, 209715, 51),
      power |-> Double(128608, 153431, 32595, 45)],
     [exponent |-> Double(19660, 209715, 52429, 49),
      power |-> Double(32152, 38357, 204759, 43)],
     [exponent |-> Double(0, 0, 5, 1),
      power |-> Double(80954, 80766, 169817, 44)],
     [exponent |-> Double(85196, 209715, 52429, 51),
      power |-> Double(12739, 112579, 199867, 41)],
     [exponent |-> Double(87381, 87381, 87381, 51),
      power |-> Double(7426, 142117, 30865, 40)],
     [exponent |-> Double(43690, 174762, 174763, 50),
      power |-> Double(14853, 22090, 61731, 41)],
     [exponent |-> Double(0, 0, 11, 2),
      power |-> Double(71979, 180780, 233165, 43)],
     [exponent |-> Double(45875, 52428, 209715, 50),
      power |-> Double(80762, 141582, 68475, 43)],
     [exponent |-> Double(92842, 174762, 174763, 51),
      power |-> Double(43602, 181513, 176249, 42)]
    }

\* 10**v for a float v >= 0: exact at a whole number below 10, tabulated
\* elsewhere.
Pow10(v) ==
    IF v.scale = 0
    THEN Canonical(NatToBits(10^FloatInt(v)), 0)
    ELSE (CHOOSE e \in Pow10Table : e.exponent = v).power

\* The i-th (0-based) log-scale grid value of p:
\* v = log10(range[1]) - log10(range[0]); v *= (i + 1) / (num_grid_points + 1);
\* v += log10(range[0]); v = 10**v; and int(v) for Discrete.
GridValueLog(p, i, num_grid_points) ==
    LET v == Pow10(FloatPlus(FloatTimes(Log10(p.range[2]) - Log10(p.range[1]),
                                        FloatDiv(i + 1, num_grid_points + 1)),
                             Log10(p.range[1])))
    IN  IF p.kind = "Discrete" THEN FloatInt(v) ELSE v

\* _get_param_dict: parameter name -> list of candidate values.
GridSearch_get_param_dict(self, params) ==
    [nm \in Names(params) |->
        LET p == ParamOf(params, nm)
        IN  IF p.kind \in {"Continuous", "Discrete"}
            THEN [i \in 1..self.num_grid_points |->
                     IF p.scale = "log"
                     THEN GridValueLog(p, i - 1, self.num_grid_points)
                     ELSE GridValue(p, i - 1, self.num_grid_points)]
            ELSE p.range]

\* itertools.product over the values of `keys`, the last key varying fastest,
\* each tuple zipped with the keys into a dict.
RECURSIVE Product(_, _)
Product(keys, param_dict) ==
    IF keys = <<>> THEN <<EmptyDict>>
    ELSE LET rest == Product(Tail(keys), param_dict)
             vals == param_dict[Head(keys)]
         IN  IF Len(rest) = 0 THEN <<>>
             ELSE [idx \in 1..(Len(vals) * Len(rest)) |->
                      (Head(keys) :> vals[((idx - 1) \div Len(rest)) + 1])
                          @@ rest[((idx - 1) % Len(rest)) + 1]]

\* A variant in which the first key varies fastest.
ParameterGrid_FirstFastest(param_dict) ==
    LET keys == SortedKeys(DOMAIN param_dict, NameOrder)
    IN  Product([k \in 1..Len(keys) |-> keys[Len(keys) + 1 - k]], param_dict)

\* list(sklearn.model_selection.ParameterGrid(param_dict)).
ParameterGrid(param_dict) ==
    Product(SortedKeys(DOMAIN param_dict, NameOrder), param_dict)

\* __init__; grid = None is written <<>> (it is built before it is read).
GridSearch(num_grid_points, repeat) ==
    [cls |-> "GridSearch",
     grid |-> <<>>,
     num_grid_points |-> num_grid_points,
     i |-> 0,
     m |-> repeat,
     j |-> 0,
     theta_i |-> EmptyDict]

\* A variant that starts the sweep over once the grid is exhausted.
GridSearch_get_suggestion_Wrap(self, params) ==
    LET s0 == IF self.i = 0 /\ self.j = 0
              THEN [self EXCEPT !.grid =
                        ParameterGrid(GridSearch_get_param_dict(self, params))]
              ELSE self
        s1 == IF s0.j = s0.m
              THEN [s0 EXCEPT !.j = 0, !.i = s0.i + 1]
              ELSE s0
    IN  IF s1.i = Len(s1.grid)
        THEN [self |-> [s1 EXCEPT !.i = 0], ret |-> Stop]
        ELSE LET s2 == IF s1.j = 0
                       THEN [s1 EXCEPT !.theta_i = s1.grid[s1.i + 1]]
                       ELSE s1
             IN  [self |-> [s2 EXCEPT !.j = s2.j + 1], ret |-> s2.theta_i]

\* get_suggestion, lines 269-278: Stop at the end of the grid, else the
\* current grid point, fetched when no repetition of it has been returned.
GridSearch_return(s1) ==
    IF s1.i = Len(s1.grid)
    THEN [self |-> s1, ret |-> Stop]
    ELSE LET s2 == IF s1.j = 0
                   THEN [s1 EXCEPT !.theta_i = s1.grid[s1.i + 1]]
                   ELSE s1
         IN  [self |-> [s2 EXCEPT !.j = s2.j + 1], ret |-> s2.theta_i]

\* get_suggestion, lines 264-266: a finished block of repetitions moves on to
\* the next grid point.
GridSearch_advance(s0) ==
    IF s0.j = s0.m THEN [s0 EXCEPT !.j = 0, !.i = s0.i + 1] ELSE s0

\* get_suggestion, lines 259-261: the grid is built on the first call.
GridSearch_build(self, params) ==
    IF self.i = 0 /\ self.j = 0
    THEN [self EXCEPT !.grid =
              ParameterGrid(GridSearch_get_param_dict(self, params))]
    ELSE self

GridSearch_get_suggestion(self, params) ==
    GridSearch_return(GridSearch_advance(GridSearch_build(self, params)))

(***************************************************************************)
(* The results table: a sequence of rows                                   *)
(*   [TrialID, Status, Iteration, Objective, params]                       *)
(* where params holds the row's parameter columns as a mapping.            *)
(***************************************************************************)
Row(tid, status, iteration, objective, cfg) ==
    [TrialID |-> tid, Status |-> status, Iteration |-> iteration,
     Objective |-> objective, params |-> cfg]

\* results.query("Status == 'COMPLETED'").
Completed(rows) == SelectSeq(rows, LAMBDA r : r.Status = "COMPLETED")

\* Whether objective x sorts strictly before y under
\* sort_values(by='Objective', ascending=...): not-a-number sorts last.
SortsBefore(x, y, ascending) ==
    /\ ~IsNaN(x)
    /\ \/ IsNaN(y)
       \/ IF ascending THEN Val(x) < Val(y) ELSE Val(x) > Val(y)

(***************************************************************************)
(* Genetic.                                                                *)
(***************************************************************************)
\* Probabilities (mutation_rate, numpy.random.random()) are multiples of
\* 1 / ProbDen, written as their numerators.
ProbDen == 4
\* _get_candidate's default min_candidates.
min_candidates == 10

Genetic(mutation_rate, max_num_trials) ==
    [cls |-> "Genetic",
     mutation_rate |-> mutation_rate,
     max_num_trials |-> max_num_trials,
     count |-> 0]

\* results.loc[results['Status'] != 'INTERMEDIATE', :]
Population(rows) == SelectSeq(rows, LAMBDA r : r.Status # "INTERMEDIATE")

\* The rows of `population` that sort_values can place at position idx
\* (0-based): rows of equal Objective may come out in any order.
RowsAtRank(population, ascending, idx) ==
    {k \in 1..Len(population) :
        LET before == {q \in 1..Len(population) :
                          SortsBefore(population[q].Objective,
                                      population[k].Objective, ascending)}
            notAfter == {q \in 1..Len(population) :
                            ~SortsBefore(population[k].Objective,
                                         population[q].Objective, ascending)}
        IN  Cardinality(before) <= idx /\ idx < Cardinality(notAfter)}

\* The draws _get_candidate can make: a fresh sample (used on the cold-start
\* path) and the row found at the random index into the top third.
CandidateDraws(params, rows, lower_is_better) ==
    LET population == Population(rows)
    IN  IF Len(rows) = 0 \/ Len(population) < min_candidates
        THEN {[sample |-> c, row |-> 0] : c \in SampledConfigs(params)}
        ELSE {[sample |-> EmptyDict, row |-> k] :
                 k \in UNION {RowsAtRank(population, lower_is_better, idx) :
                                 idx \in 0..((Len(population) \div 3) - 1)}}

\* Every outcome of the random draws of one get_suggestion call.
GeneticDraws(params, rows, lower_is_better) ==
    [draw1 : CandidateDraws(params, rows, lower_is_better),
     draw2 : CandidateDraws(params, rows, lower_is_better),
     origin : [Names(params) -> 0..(ProbDen - 1)],
     fresh : SampledConfigs(params)]

\* _get_candidate, given its draw.
Genetic_get_candidate(params, rows, lower_is_better, draw) ==
    LET population == Population(rows)
    IN  IF Len(rows) = 0 \/ Len(population) < min_candidates
        THEN draw.sample
        ELSE [nm \in Names(params) |-> population[draw.row].params[nm]]

\* A variant that also mutates when the draw equals mutation_rate.
Genetic_get_suggestion_MutateAtRate(self, params, rows, lower_is_better, rnd) ==
    IF self.max_num_trials # 0 /\ self.count >= self.max_num_trials
    THEN [self |-> self, ret |-> Stop,
          trial_1_params |-> EmptyDict, trial_2_params |-> EmptyDict]
    ELSE LET trial_1_params ==
                 Genetic_get_candidate(params, rows, lower_is_better, rnd.draw1)
             trial_2_params ==
                 Genetic_get_candidate(params, rows, lower_is_better, rnd.draw2)
             next == [nm \in DOMAIN trial_1_params |->
                        IF rnd.origin[nm] <= self.mutation_rate
                        THEN rnd.fresh[nm]
                        ELSE IF 2 * rnd.origin[nm] < self.mutation_rate + ProbDen
                             THEN trial_1_params[nm]
                             ELSE trial_2_params[nm]]
         IN  [self |-> [self EXCEPT !.count = self.count + 1], ret |-> next,
              trial_1_params |-> trial_1_params,
              trial_2_params |-> trial_2_params]

\* A variant that does not count the suggestions it returns.
Genetic_get_suggestion_NoCount(self, params, rows, lower_is_better, rnd) ==
    IF self.max_num_trials # 0 /\ self.count >= self.max_num_trials
    THEN [self |-> self, ret |-> Stop,
          trial_1_params |-> EmptyDict, trial_2_params |-> EmptyDict]
    ELSE LET trial_1_params ==
                 Genetic_get_candidate(params, rows, lower_is_better, rnd.draw1)
             trial_2_params ==
                 Genetic_get_candidate(params, rows, lower_is_better, rnd.draw2)
             next == [nm \in DOMAIN trial_1_params |->
                        IF rnd.origin[nm] < self.mutation_rate
                        THEN rnd.fresh[nm]
                        ELSE IF 2 * rnd.origin[nm] < self.mutation_rate + ProbDen
                             THEN trial_1_params[nm]
                             ELSE trial_2_params[nm]]
         IN  [self |-> [self EXCEPT !.count = self.count + 0], ret |-> next,
              trial_1_params |-> trial_1_params,
              trial_2_params |-> trial_2_params]

\* get_suggestion; the random draws of the call are rnd.draw1 and rnd.draw2
\* (the two candidate draws), rnd.origin[name] (numpy.random.random() for
\* that parameter) and rnd.fresh[name] (parameter_object.sample(), if called).
\* The two candidates are returned next to the suggestion.
Genetic_get_suggestion(self, params, rows, lower_is_better, rnd) ==
    IF self.max_num_trials # 0 /\ self.count >= self.max_num_trials
    THEN [self |-> self, ret |-> Stop,
          trial_1_params |-> EmptyDict, trial_2_params |-> EmptyDict]
    ELSE LET trial_1_params ==
                 Genetic_get_candidate(params, rows, lower_is_better, rnd.draw1)
             trial_2_params ==
                 Genetic_get_candidate(params, rows, lower_is_better, rnd.draw2)
             next == [nm \in DOMAIN trial_1_params |->
                        IF rnd.origin[nm] < self.mutation_rate
                        THEN rnd.fresh[nm]
                        ELSE IF 2 * rnd.origin[nm] < self.mutation_rate + ProbDen
                             THEN trial_1_params[nm]
                             ELSE trial_2_params[nm]]
         IN  [self |-> [self EXCEPT !.count = self.count + 1], ret |-> next,
              trial_1_params |-> trial_1_params,
              trial_2_params |-> trial_2_params]

(***************************************************************************)
(* Method dispatch and the orchestrator.                                   *)
(***************************************************************************)
\* obj.load(num_trials): Iterate overrides load, every other class inherits
\* Algorithm.load.
load(self, num_trials) ==
    IF self.cls = "Iterate"
    THEN Iterate_load(self, num_trials)
    ELSE Algorithm_load(self, num_trials)

\* The constructor call that built `self`.
Fresh(self) ==
    CASE self.cls = "RandomSearch" ->
            RandomSearch(IF self.n = Unbounded THEN 0 ELSE self.n, self.m)
      [] self.cls = "Iterate" -> Iterate(self.hp_iter)
      [] self.cls = "GridSearch" -> GridSearch(self.num_grid_points, self.m)
      [] self.cls = "Genetic" -> Genetic(self.mutation_rate, self.max_num_trials)

\* self.algorithm.get_suggestion(parameters, results, lower_is_better) on a
\* wrapped algorithm; rnd.sample is what sampling every parameter yields.
get_suggestion(self, params, rows, lower_is_better, rnd) ==
    CASE self.cls = "RandomSearch" -> RandomSearch_get_suggestion(self, rnd.sample)
      [] self.cls = "Iterate" -> Iterate_get_suggestion(self)
      [] self.cls = "GridSearch" -> GridSearch_get_suggestion(self, params)

(***************************************************************************)
(* Repeat.                                                                 *)
(***************************************************************************)
Repeat(algorithm, num_times, wait_for_completion) ==
    [cls |-> "Repeat",
     algorithm |-> algorithm,
     num_times |-> num_times,
     queue |-> <<>>,
     prev_completed |-> 0,
     wait_for_completion |-> wait_for_completion]

\* Whether configuration c1 sorts before c2 as a groupby key: the tuples of
\* parameter values, in the order of `params`, compared lexicographically.
KeyLess(c1, c2, params) ==
    \E k \in 1..Len(params) :
        /\ c1[params[k].name] < c2[params[k].name]
        /\ \A q \in 1..(k - 1) : c1[params[q].name] = c2[params[q].name]

\* The group keys in sorted order.
RECURSIVE SortKeys(_, _)
SortKeys(keys, params) ==
    IF keys = {} THEN <<>>
    ELSE LET least == CHOOSE c \in keys :
                          \A d \in keys \ {c} : KeyLess(c, d, params)
         IN  <<least>> \o SortKeys(keys \ {least}, params)

RECURSIVE SumSeq(_)
SumSeq(xs) == IF xs = <<>> THEN 0 ELSE Head(xs) + SumSeq(Tail(xs))

\* One row of completed.groupby(names + ['Status']).agg(['mean', 'var',
\* 'count']).loc[:, 'Objective'] with varObjective = var / count.  The
\* not-a-number Objectives of the group are skipped; mean and varObjective
\* are exact fractions [num, den], or NaN where pandas yields not-a-number.
AggregateRow(completed, key) ==
    LET group == SelectSeq(completed,
                     LAMBDA r : r.params = key /\ ~IsNaN(r.Objective))
        count == Len(group)
        total == SumSeq([k \in 1..count |-> Val(group[k].Objective)])
        squares == SumSeq([k \in 1..count |->
                              Val(group[k].Objective) * Val(group[k].Objective)])
    IN  [params |-> key,
         Status |-> "COMPLETED",
         Objective |-> IF count = 0 THEN NaN
                       ELSE [num |-> total, den |-> count],
         count |-> count,
         varObjective |-> IF count < 2 THEN NaN
                          ELSE [num |-> count * squares - total * total,
                                den |-> count * (count - 1) * count]]

\* aggregate_results: one row per group, those with count >= num_times.
Repeat_aggregate(self, completed, params) ==
    LET keys == SortKeys({completed[k].params : k \in 1..Len(completed)}, params)
        groups == [k \in 1..Len(keys) |-> AggregateRow(completed, keys[k])]
    IN  SelectSeq(groups, LAMBDA g : g.count >= self.num_times)

\* What a call that did not consult the wrapped algorithm passed to it.
NotConsulted == [sentinel |-> "NotConsulted"]
\* What a call that consulted it with results=x passed.
Passed(x) == [results |-> x]

\* get_suggestion, the end of the refill branch: the inner suggestion r.ret
\* is queued num_times times and one copy popped and returned.  `passed`
\* records the results argument the wrapped algorithm was called with.
Repeat_enqueue(s1, r, aggregate_results) ==
    LET queue == [k \in 1..s1.num_times |-> r.ret]
    IN  [self |-> [s1 EXCEPT !.algorithm = r.self,
                             !.queue = SubSeq(queue, 1, Len(queue) - 1)],
         ret |-> queue[Len(queue)],
         passed |-> Passed(aggregate_results)]

\* A variant that queues num_times copies and returns the suggestion itself,
\* without popping one.
Repeat_get_suggestion_NoPop(self, params, rows, lower_is_better, rnd) ==
    IF Len(self.queue) = 0
    THEN IF /\ Len(rows) > 0
            /\ self.wait_for_completion
            /\ Len(Completed(rows)) < self.prev_completed + self.num_times
         THEN [self |-> self, ret |-> Wait, passed |-> NotConsulted]
         ELSE LET s1 == IF Len(rows) > 0
                        THEN [self EXCEPT !.prev_completed = @ + self.num_times]
                        ELSE self
                  r == get_suggestion(s1.algorithm, params, <<>>,
                                      lower_is_better, rnd)
              IN  [self |-> [s1 EXCEPT !.algorithm = r.self,
                                       !.queue = [k \in 1..s1.num_times |-> r.ret]],
                   ret |-> r.ret,
                   passed |-> Passed(<<>>)]
    ELSE [self |-> [self EXCEPT !.queue = SubSeq(@, 1, Len(@) - 1)],
          ret |-> self.queue[Len(self.queue)],
          passed |-> NotConsulted]

\* get_suggestion; results = None and an empty table are both <<>>.
Repeat_get_suggestion(self, params, rows, lower_is_better, rnd) ==
    IF Len(self.queue) = 0
    THEN IF /\ Len(rows) > 0
            /\ self.wait_for_completion
            /\ Len(Completed(rows)) < self.prev_completed + self.num_times
         THEN [self |-> self, ret |-> Wait, passed |-> NotConsulted]
         ELSE LET s1 == IF Len(rows) > 0
                        THEN [self EXCEPT !.prev_completed = @ + self.num_times]
                        ELSE self
                  aggregate_results ==
                      IF Len(rows) > 0
                      THEN Repeat_aggregate(self, Completed(rows), params)
                      ELSE <<>>
              IN  Repeat_enqueue(s1,
                      get_suggestion(s1.algorithm, params, aggregate_results,
                                     lower_is_better, rnd),
                      aggregate_results)
    ELSE [self |-> [self EXCEPT !.queue = SubSeq(@, 1, Len(@) - 1)],
          ret |-> self.queue[Len(self.queue)],
          passed |-> NotConsulted]

(***************************************************************************)
(* LocalSearch.                                                            *)
(***************************************************************************)
\* A perturbation factor: the float that the literal of num / den denotes.
Factor(num, den) == FloatOf(num, den)

\* The default perturbation_factors, (0.8, 1.2).
DefaultFactors == <<Factor(4, 5), Factor(6, 5)>>

LocalSearch(seed_configuration, perturbation_factors, repeat_trials) ==
    [cls |-> "LocalSearch",
     seed_configuration |-> seed_configuration,
     count |-> 0,
     submitted |-> <<>>,
     perturbation_factors |-> perturbation_factors,
     next_trial |-> <<>>,
     repeat_trials |-> repeat_trials]

\* numpy.clip(x, lo, hi).
Clip(x, lo, hi) == IF x < lo THEN lo ELSE IF x > hi THEN hi ELSE x

\* values.index(v): the 0-based position of the first v in values.
IndexOf(values, v) ==
    (CHOOSE k \in 1..Len(values) :
        values[k] = v /\ \A q \in 1..(k - 1) : values[q] # v) - 1

SeqMin(xs) == CHOOSE x \in SeqToSet(xs) : \A y \in SeqToSet(xs) : x <= y
SeqMax(xs) == CHOOSE x \in SeqToSet(xs) : \A y \in SeqToSet(xs) : x >= y

\* The float product x * f.  The products of the default factors with the
\* small whole values, and with what up to MaxKnownSteps multiplications
\* make of them, are computed once and looked up.
KnownFactors == {Factor(4, 5), Factor(5, 5), Factor(6, 5)}

Multiples(known) ==
    known \cup {FloatMul(x, f) : x \in known, f \in KnownFactors}

RECURSIVE KnownValues(_)
KnownValues(steps) ==
    IF steps = 0
    THEN {FloatOfNat(v) : v \in 0..MaxKnownValue}
    ELSE Multiples(KnownValues(steps - 1))

KnownProducts ==
    [x \in KnownValues(MaxKnownSteps) |->
        [f \in KnownFactors |-> FloatMul(x, f)]]

ProductIn(products, x, f) ==
    IF x \in DOMAIN products /\ f \in DOMAIN products[x]
    THEN products[x][f]
    ELSE FloatMul(x, f)

Times(x, f) == ProductIn(KnownProducts, x, f)

\* The left operand of *=: the value of a Discrete parameter is an int, that
\* of a Continuous one a float.
Operand(value, kind) == IF kind = "Discrete" THEN FloatOfNat(value) ELSE value

\* Lines 403-404: int() of the product for a Discrete parameter only.
Truncated(product, kind) ==
    IF kind = "Discrete" THEN FloatInt(product) ELSE product

\* Lines 401-404: the value times the factor, a float, and int() of it for
\* a Discrete parameter.
Scaled(value, factor, kind) ==
    Truncated(Times(Operand(value, kind), factor), kind)

\* Lines 406-408: numpy.clip of an int or of a float.
Clipped(value, kind, lo, hi) ==
    IF kind = "Discrete" THEN Clip(value, lo, hi) ELSE FloatClip(value, lo, hi)

\* _perturb, lines 400-404: the factor of the direction, the product and
\* its truncation.
LocalSearch_scaled(self, value, parameter, increase) ==
    Scaled(value, self.perturbation_factors[IF increase THEN 2 ELSE 1],
           parameter.kind)

\* A variant that does not clip the scaled value to the range.
LocalSearch_perturb_NoClip(self, candidate, parameter, increase) ==
    IF parameter.kind = "Ordinal"
    THEN LET shift == IF increase THEN 1 ELSE 0 - 1
             values == parameter.range
             newidx == Clip(IndexOf(values, candidate[parameter.name]) + shift,
                            0, Len(values) - 1)
         IN  [candidate EXCEPT ![parameter.name] = values[newidx + 1]]
    ELSE [candidate EXCEPT ![parameter.name] =
             LocalSearch_scaled(self, candidate[parameter.name], parameter,
                                increase)]

\* _perturb: one rank up or down for an Ordinal parameter, times the factor
\* for any other, truncated by int() for a Discrete one, both clipped to
\* the range.
LocalSearch_perturb(self, candidate, parameter, increase) ==
    IF parameter.kind = "Ordinal"
    THEN LET shift == IF increase THEN 1 ELSE 0 - 1
             values == parameter.range
             newidx == Clip(IndexOf(values, candidate[parameter.name]) + shift,
                            0, Len(values) - 1)
         IN  [candidate EXCEPT ![parameter.name] = values[newidx + 1]]
    ELSE [candidate EXCEPT ![parameter.name] =
             Clipped(LocalSearch_scaled(self, candidate[parameter.name],
                                        parameter, increase),
                     parameter.kind,
                     SeqMin(parameter.range), SeqMax(parameter.range))]

\* Every sequence that lists each element of S exactly once.
Orderings(S) ==
    {f \in [1..Cardinality(S) -> S] : \A x \in S : \E k \in DOMAIN f : f[k] = x}

\* What one parameter's inner loop iterates over: the values of a Choice, or
\* the two directions [True, False].
Moves(p) == IF p.kind = "Choice" THEN SeqToSet(p.range) ELSE BOOLEAN

\* Every way random.sample can order each parameter's values or directions:
\* sequences whose k-th entry is an ordering of the moves of parameter k,
\* for the parameters from position `from` on.
RECURSIVE MoveShuffles(_, _)
MoveShuffles(params, from) ==
    IF from > Len(params) THEN {<<>>}
    ELSE {<<m>> \o rest : m \in Orderings(Moves(params[from])),
                          rest \in MoveShuffles(params, from + 1)}

\* The outcomes of the random.sample calls of one _get_next_trials call:
\* params is the shuffled order of the parameters (as positions), moves[k] the
\* shuffled values or directions of parameter k.
Shuffles(params) ==
    [params : Orderings(1..Len(params)), moves : MoveShuffles(params, 1)]

\* new_params for one parameter and one value or direction.
LocalSearch_candidate(self, parameter, move) ==
    IF parameter.kind = "Choice"
    THEN [self.seed_configuration EXCEPT ![parameter.name] = move]
    ELSE LocalSearch_perturb(self, self.seed_configuration, parameter, move)

\* The candidates in the order the nested loops generate them.
RECURSIVE LocalSearch_candidates(_, _, _, _)
LocalSearch_candidates(self, params, shuffle, from) ==
    IF from > Len(params) THEN <<>>
    ELSE LET k == shuffle.params[from]
         IN  [m \in 1..Len(shuffle.moves[k]) |->
                 LocalSearch_candidate(self, params[k], shuffle.moves[k][m])]
             \o LocalSearch_candidates(self, params, shuffle, from + 1)

\* What completed.loc[best_idx, ...] raises when best_idx is nan (a pandas
\* whose idxmin / idxmax reject a column of nothing but not-a-number raises
\* ValueError one step earlier: the call fails either way).
KeyError == [exception |-> "KeyError"]

\* The row completed.loc[best_idx]: idxmin / idxmax skip not-a-number and
\* give the first row that attains the best Objective; when every Objective
\* is not-a-number best_idx is nan and the lookup raises.
BestRow(completed, lower_is_better) ==
    IF IdxBest(completed, lower_is_better) = 0
    THEN KeyError
    ELSE completed[IdxBest(completed, lower_is_better)]

\* The row best, restricted to the columns of the parameters.
SeedOf(best, params) ==
    IF "exception" \in DOMAIN best
    THEN best
    ELSE [nm \in Names(params) |-> best.params[nm]]

\* The seed _get_next_trials continues from, or the exception raised while
\* looking it up.
LocalSearch_reseed(self, params, rows, lower_is_better) ==
    IF Len(rows) > 0 /\ Len(Completed(rows)) > 0
    THEN SeedOf(BestRow(Completed(rows), lower_is_better), params)
    ELSE self.seed_configuration

\* Whether the lookup of the best row raises.
LocalSearch_raises(self, params, rows, lower_is_better) ==
    "exception" \in DOMAIN LocalSearch_reseed(self, params, rows, lower_is_better)

\* A variant that returns the first candidate without looking it up in
\* submitted.
LocalSearch_get_next_trials_NoLookup(self, params, rows, lower_is_better, shuffle) ==
    LET s1 == [self EXCEPT !.count = self.count + 1]
    IN  IF s1.count = 1
        THEN [self |-> [s1 EXCEPT !.submitted = Append(@, s1.seed_configuration)],
              batch |-> [k \in 1..s1.repeat_trials |-> s1.seed_configuration]]
        ELSE IF LocalSearch_raises(s1, params, rows, lower_is_better)
        THEN [self |-> s1,
              raised |-> LocalSearch_reseed(s1, params, rows, lower_is_better)]
        ELSE LET s2 == [s1 EXCEPT !.seed_configuration =
                           LocalSearch_reseed(s1, params, rows, lower_is_better)]
                 cands == LocalSearch_candidates(s2, params, shuffle, 1)
             IN  [self |-> [s2 EXCEPT !.submitted = Append(@, cands[1])],
                  batch |-> [k \in 1..s2.repeat_trials |-> cands[1]]]

\* Lines 364-374: the first candidate that is not in submitted is recorded
\* and returned repeat_trials times, or None when there is none; new holds
\* the candidates not in submitted, in the order of the loops.
LocalSearch_batch(self, new) ==
    IF new # <<>>
    THEN [self |-> [self EXCEPT !.submitted = Append(@, new[1])],
          batch |-> [k \in 1..self.repeat_trials |-> new[1]]]
    ELSE [self |-> self,
          batch |-> [k \in 1..self.repeat_trials |-> Stop]]

\* _get_next_trials: the updated object and the batch returned, or the
\* exception raised.
LocalSearch_get_next_trials(self, params, rows, lower_is_better, shuffle) ==
    LET s1 == [self EXCEPT !.count = self.count + 1]
    IN  IF s1.count = 1
        THEN [self |-> [s1 EXCEPT !.submitted = Append(@, s1.seed_configuration)],
              batch |-> [k \in 1..s1.repeat_trials |-> s1.seed_configuration]]
        ELSE IF LocalSearch_raises(s1, params, rows, lower_is_better)
        THEN [self |-> s1,
              raised |-> LocalSearch_reseed(s1, params, rows, lower_is_better)]
        ELSE LET s2 == [s1 EXCEPT !.seed_configuration =
                           LocalSearch_reseed(s1, params, rows, lower_is_better)]
             IN  LocalSearch_batch(s2,
                     SelectSeq(LocalSearch_candidates(s2, params, shuffle, 1),
                               LAMBDA c : c \notin SeqToSet(s2.submitted)))

\* get_suggestion, line 334: the last entry of the batch r is popped and
\* returned; an exception of _get_next_trials leaves next_trial as it was
\* and count incremented.
LocalSearch_pop(r) ==
    IF "raised" \in DOMAIN r
    THEN [self |-> r.self, ret |-> r.raised]
    ELSE [self |-> [r.self EXCEPT !.next_trial =
                                      SubSeq(r.batch, 1, Len(r.batch) - 1)],
          ret |-> r.batch[Len(r.batch)]]

LocalSearch_get_suggestion(self, params, rows, lower_is_better, shuffle) ==
    LocalSearch_pop(IF self.next_trial = <<>>
                    THEN LocalSearch_get_next_trials(self, params, rows,
                                                     lower_is_better, shuffle)
                    ELSE [self |-> self, batch |-> self.next_trial])

(***************************************************************************)
(* PopulationBasedTraining.  A string built from numerals and commas is    *)
(* written as the sequence of its tokens: '' is <<>>, '3,7,' is            *)
(* <<"3", ",", "7", ",">>.  save_to and load_from hold one numeral or "".   *)
(***************************************************************************)
\* The least population_size with population_size // 5 > 0, that is with a
\* top 20% to resample from.
MinResampling == 5

\* str(n) for an integer n.
Str(n) == ToString(n)

\* int(s) for a numeral s.
IntOf(s) == CHOOSE n \in 0..(MaxGenerations + 1) * MinResampling : Str(n) = s

\* d.update(extra): the keys of extra are set in d.
Update(d, extra) ==
    [k \in (DOMAIN d) \cup (DOMAIN extra) |->
        IF k \in DOMAIN extra THEN extra[k] ELSE d[k]]

\* The default perturbation_factors, (0.8, 1.0, 1.2).
PBTFactors == <<Factor(4, 5), Factor(5, 5), Factor(6, 5)>>

PopulationBasedTraining(population_size, parameter_range, perturbation_factors) ==
    [cls |-> "PopulationBasedTraining",
     population_size |-> population_size,
     parameter_range |-> parameter_range,
     perturbation_factors |-> perturbation_factors,
     generation |-> 0,
     count |-> 0,
     random_sampler |-> RandomSearch(0, 1)]

\* self.parameter_range.get(param.name) or param.range
PBT_range(self, param) ==
    IF param.name \in DOMAIN self.parameter_range
       /\ self.parameter_range[param.name] # <<>>
    THEN self.parameter_range[param.name]
    ELSE param.range

\* What _perturb draws for one parameter: the index of a factor
\* (Discrete), a shift (Ordinal), or a fresh sample (Choice).
PBT_perturb_draws(self, param) ==
    IF param.kind = "Choice" THEN SampleSpace(param)
    ELSE IF param.kind = "Ordinal" THEN {0 - 1, 0, 1}
    ELSE 1..Len(self.perturbation_factors)

\* Every combination of draws of one _perturb call, by parameter name.
PBT_perturbations(self, params) ==
    {f \in [Names(params) ->
               UNION {PBT_perturb_draws(self, params[k]) : k \in 1..Len(params)}] :
        \A k \in 1..Len(params) :
            f[params[k].name] \in PBT_perturb_draws(self, params[k])}

\* The kinds of parameter _perturb recognizes.
ParameterKinds == {"Choice", "Continuous", "Discrete", "Ordinal"}

\* _perturb for one parameter: value is candidate[param.name], values the
\* range in force and drawn what is drawn for the parameter.
PBT_perturbed(self, value, param, values, drawn) ==
    IF param.kind \in {"Continuous", "Discrete"}
    THEN Clipped(Scaled(value, self.perturbation_factors[drawn], param.kind),
                 param.kind, SeqMin(values), SeqMax(values))
    ELSE IF param.kind = "Ordinal"
    THEN values[Clip(IndexOf(values, value) + drawn, 0, Len(values) - 1) + 1]
    ELSE drawn

\* _perturb; draw[name] is what is drawn for the parameter of that name.  A
\* parameter of no known kind raises ValueError.
PBT_perturb(self, candidate, params, draw) ==
    IF \E k \in 1..Len(params) : params[k].kind \notin ParameterKinds
    THEN ValueError
    ELSE [k \in DOMAIN candidate |->
             IF k \notin Names(params) THEN candidate[k]
             ELSE PBT_perturbed(self, candidate[k], ParamOf(params, k),
                                PBT_range(self, ParamOf(params, k)), draw[k])]

\* generation_df before sorting: the COMPLETED rows of a generation.
PBT_generation_df(rows, generation) ==
    SelectSeq(Completed(rows), LAMBDA r : r.params.generation = generation)

\* Whether this call continues a member of the top 80%:
\* (count - 1) % population_size / population_size < 0.8.
PBT_continues(self) ==
    ((self.count - 1) % self.population_size) * 5 < 4 * self.population_size

\* A variant that reads the position of the slot on the resampling branch
\* too.
PBT_rank_SlotAlways(self, idx) == (self.count - 1) % self.population_size

\* The position in the sorted generation that _truncation_selection reads;
\* idx is numpy.random.randint(0, population_size // 5).
PBT_rank(self, idx) ==
    IF PBT_continues(self) THEN (self.count - 1) % self.population_size ELSE idx

\* What one get_suggestion call can draw: a fresh sample, idx, the row that
\* sort_values placed at the position read (pick, an index into the
\* unsorted generation; 0 when the generation has no row at that position),
\* and the draws of _perturb.
PBTDraws(self, params, rows, lower_is_better) ==
    LET count == self.count + 1
        generation == ((count - 1) \div self.population_size) + 1
        s1 == [self EXCEPT !.count = count, !.generation = generation]
        generation_df == PBT_generation_df(rows, generation - 1)
        indices == IF generation = 1 \/ PBT_continues(s1)
                   THEN {0} ELSE 0..((self.population_size \div 5) - 1)
    IN  {rnd \in [sample : SampledConfigs(params),
                  idx : indices,
                  pick : 0..Len(generation_df),
                  perturb : PBT_perturbations(self, params)] :
            IF generation = 1 \/ PBT_rank(s1, rnd.idx) >= Len(generation_df)
            THEN rnd.pick = 0
            ELSE rnd.pick \in RowsAtRank(generation_df, lower_is_better,
                                         PBT_rank(s1, rnd.idx))}

\* Line 608: the entries of d that _truncation_selection returns, or the
\* exception d.
PBT_columns(d, params) ==
    IF "exception" \in DOMAIN d
    THEN d
    ELSE [k \in Names(params) \cup {"load_from", "save_to", "lineage"} |-> d[k]]

\* _truncation_selection; self.count is already incremented.  iloc raises
\* IndexError when the COMPLETED rows of the generation before do not reach
\* the position read (lines 600, 603), before _perturb is called.  A table
\* without rows keeps its columns (a frame without a Status column raises
\* KeyError at line 591: the call fails either way, after the increment).
PBT_truncation_selection(self, params, rows, lower_is_better, rnd) ==
    LET generation_df == PBT_generation_df(rows, self.generation - 1)
    IN  IF PBT_rank(self, rnd.idx) >= Len(generation_df)
        THEN IndexError
        ELSE PBT_columns(IF PBT_continues(self)
                         THEN generation_df[rnd.pick].params
                         ELSE PBT_perturb(self, generation_df[rnd.pick].params,
                                          params, rnd.perturb),
                         params)

\* A variant whose lineage is not extended by the parent.
PBT_get_suggestion_NoLineage(self, params, rows, lower_is_better, rnd) ==
    LET count == self.count + 1
        generation == ((count - 1) \div self.population_size) + 1
        s1 == [self EXCEPT !.count = count, !.generation = generation]
    IN  IF generation = 1
        THEN LET r == RandomSearch_get_suggestion(s1.random_sampler, rnd.sample)
                 trial == Update(r.ret, [lineage |-> <<>>, load_from |-> "",
                                         save_to |-> Str(count),
                                         generation |-> generation])
             IN  [self |-> [s1 EXCEPT !.random_sampler =
                               [r.self EXCEPT !.theta_i = trial]],
                  ret |-> trial]
        ELSE IF "exception" \in DOMAIN PBT_truncation_selection(s1, params,
                                           rows, lower_is_better, rnd)
        THEN [self |-> s1,
              ret |-> PBT_truncation_selection(s1, params, rows,
                                               lower_is_better, rnd)]
        ELSE LET t0 == PBT_truncation_selection(s1, params, rows,
                                                lower_is_better, rnd)
                 load_from == Str(IntOf(t0.save_to))
                 trial == Update(t0, [load_from |-> load_from,
                                      save_to |-> Str(count),
                                      lineage |-> t0.lineage,
                                      generation |-> generation])
             IN  [self |-> s1, ret |-> trial]

\* A variant that saves the members of generation 1 under the generation
\* number instead of the counter.
PBT_get_suggestion_SaveToGeneration(self, params, rows, lower_is_better, rnd) ==
    LET count == self.count + 1
        generation == ((count - 1) \div self.population_size) + 1
        s1 == [self EXCEPT !.count = count, !.generation = generation]
    IN  IF generation = 1
        THEN LET r == RandomSearch_get_suggestion(s1.random_sampler, rnd.sample)
                 trial == Update(r.ret, [lineage |-> <<>>, load_from |-> "",
                                         save_to |-> Str(generation),
                                         generation |-> generation])
             IN  [self |-> [s1 EXCEPT !.random_sampler =
                               [r.self EXCEPT !.theta_i = trial]],
                  ret |-> trial]
        ELSE IF "exception" \in DOMAIN PBT_truncation_selection(s1, params,
                                           rows, lower_is_better, rnd)
        THEN [self |-> s1,
              ret |-> PBT_truncation_selection(s1, params, rows,
                                               lower_is_better, rnd)]
        ELSE LET t0 == PBT_truncation_selection(s1, params, rows,
                                                lower_is_better, rnd)
                 load_from == Str(IntOf(t0.save_to))
                 trial == Update(t0, [load_from |-> load_from,
                                      save_to |-> Str(count),
                                      lineage |-> t0.lineage \o <<load_from, ",">>,
                                      generation |-> generation])
             IN  [self |-> s1, ret |-> trial]

\* Lines 573-579: the trial that continues the selected one, d; an
\* exception of _truncation_selection passes through.
PBT_offspring(d, count, generation) ==
    IF "exception" \in DOMAIN d
    THEN d
    ELSE LET load_from == Str(IntOf(d.save_to))
         IN  Update(d, [load_from |-> load_from,
                        save_to |-> Str(count),
                        lineage |-> d.lineage \o <<load_from, ",">>,
                        generation |-> generation])

\* get_suggestion.  In generation 1 the returned dict is the sampler's
\* theta_i itself, so the keys set on it are set on theta_i too.  An
\* exception of _truncation_selection leaves count and generation updated.
PBT_get_suggestion(self, params, rows, lower_is_better, rnd) ==
    LET count == self.count + 1
        generation == ((count - 1) \div self.population_size) + 1
        s1 == [self EXCEPT !.count = count, !.generation = generation]
    IN  IF generation = 1
        THEN LET r == RandomSearch_get_suggestion(s1.random_sampler, rnd.sample)
                 trial == Update(r.ret, [lineage |-> <<>>, load_from |-> "",
                                         save_to |-> Str(count),
                                         generation |-> generation])
             IN  [self |-> [s1 EXCEPT !.random_sampler =
                               [r.self EXCEPT !.theta_i = trial]],
                  ret |-> trial]
        ELSE [self |-> s1,
              ret |-> PBT_offspring(PBT_truncation_selection(s1, params, rows,
                                        lower_is_better, rnd),
                                    count, generation)]

(***************************************************************************)
(* MedianStoppingRule.                                                     *)
(***************************************************************************)
MedianStoppingRule(min_iterations, min_trials) ==
    [cls |-> "MedianStoppingRule",
     min_iterations |-> min_iterations,
     min_trials |-> min_trials]

\* results.loc[results['Trial-ID'] == tid]
TrialRows(rows, tid) == SelectSeq(rows, LAMBDA r : r.TrialID = tid)

\* trial_rows['Iteration'].max(): not-a-number when there are no rows.
MaxIteration(trial_rows) ==
    IF trial_rows = <<>> THEN NaN
    ELSE Num(SeqMax([k \in 1..Len(trial_rows) |-> trial_rows[k].Iteration]))

\* trial_rows['Objective'].min() / .max(): not-a-number values are skipped,
\* and the result is not-a-number when nothing is left.
BestObjective(trial_rows, lower_is_better) ==
    LET valid == SelectSeq(trial_rows, LAMBDA r : ~IsNaN(r.Objective))
        vals == [k \in 1..Len(valid) |-> Val(valid[k].Objective)]
    IN  IF valid = <<>> THEN NaN
        ELSE IF lower_is_better THEN Num(SeqMin(vals)) ELSE Num(SeqMax(vals))

\* x < y on floats: false when either is not-a-number.
FloatLess(x, y) == ~IsNaN(x) /\ ~IsNaN(y) /\ Val(x) < Val(y)

\* The elements of a set of integers in ascending order.
RECURSIVE Ascending(_)
Ascending(S) ==
    IF S = {} THEN <<>>
    ELSE LET least == CHOOSE x \in S : \A y \in S : x <= y
         IN  <<least>> \o Ascending(S \ {least})

\* sorted(xs) for a sequence of integers.
RECURSIVE SortInts(_)
SortInts(xs) ==
    IF xs = <<>> THEN <<>>
    ELSE LET k == CHOOSE i \in 1..Len(xs) : \A q \in 1..Len(xs) : xs[i] <= xs[q]
         IN  <<xs[k]>> \o SortInts(SubSeq(xs, 1, k - 1) \o SubSeq(xs, k + 1, Len(xs)))

\* numpy.nanmedian(vals): the median of the values that are not
\* not-a-number, as the fraction [num, den]; not-a-number when none is left.
NanMedian(vals) ==
    LET valid == SelectSeq(vals, LAMBDA x : ~IsNaN(x))
        sorted == SortInts([k \in 1..Len(valid) |-> Val(valid[k])])
        n == Len(sorted)
    IN  IF n = 0 THEN NaN
        ELSE IF n % 2 = 1 THEN [num |-> sorted[(n + 1) \div 2], den |-> 1]
        ELSE [num |-> sorted[n \div 2] + sorted[(n \div 2) + 1], den |-> 2]

\* comparison_vals: the best Objective of every other trial that has
\* reached min_iterations.
ComparisonVals(self, trial_id, rows, lower_is_better) ==
    LET ids == {rows[k].TrialID : k \in 1..Len(rows)} \ {trial_id}
        reached == {tid \in ids :
                       ~FloatLess(MaxIteration(TrialRows(rows, tid)),
                                  Num(self.min_iterations))}
        order == Ascending(reached)
    IN  [k \in 1..Len(order) |->
            BestObjective(TrialRows(rows, order[k]), lower_is_better)]

\* A variant that looks at not-a-number only after the comparison trials
\* have been counted.
MedianStoppingRule_should_trial_stop_NaNLast(self, trial_id, rows, lower_is_better) ==
    LET trial_rows == TrialRows(rows, trial_id)
        trial_obj_val == BestObjective(trial_rows, lower_is_better)
        comparison_vals == ComparisonVals(self, trial_id, rows, lower_is_better)
        median == NanMedian(comparison_vals)
    IN  IF Len(rows) = 0 THEN FALSE
        ELSE IF FloatLess(MaxIteration(trial_rows), Num(self.min_iterations))
        THEN FALSE
        ELSE IF Len(comparison_vals) < self.min_trials THEN FALSE
        ELSE IF IsNaN(trial_obj_val) /\ trial_rows # <<>> THEN TRUE
        ELSE IF IsNaN(trial_obj_val) \/ IsNaN(median) THEN FALSE
        ELSE IF lower_is_better
             THEN Val(trial_obj_val) * median.den > median.num
             ELSE Val(trial_obj_val) * median.den < median.num

\* A variant that stops on not-a-number whether or not the trial has rows.
MedianStoppingRule_should_trial_stop_NaNAlways(self, trial_id, rows, lower_is_better) ==
    LET trial_rows == TrialRows(rows, trial_id)
        trial_obj_val == BestObjective(trial_rows, lower_is_better)
        comparison_vals == ComparisonVals(self, trial_id, rows, lower_is_better)
        median == NanMedian(comparison_vals)
    IN  IF Len(rows) = 0 THEN FALSE
        ELSE IF FloatLess(MaxIteration(trial_rows), Num(self.min_iterations))
        THEN FALSE
        ELSE IF IsNaN(trial_obj_val) THEN TRUE
        ELSE IF Len(comparison_vals) < self.min_trials THEN FALSE
        ELSE IF IsNaN(median) THEN FALSE
        ELSE IF lower_is_better
             THEN Val(trial_obj_val) * median.den > median.num
             ELSE Val(trial_obj_val) * median.den < median.num

\* A variant that looks at not-a-number before min_iterations.
MedianStoppingRule_should_trial_stop_NaNFirst(self, trial_id, rows, lower_is_better) ==
    LET trial_rows == TrialRows(rows, trial_id)
        trial_obj_val == BestObjective(trial_rows, lower_is_better)
        comparison_vals == ComparisonVals(self, trial_id, rows, lower_is_better)
        median == NanMedian(comparison_vals)
    IN  IF Len(rows) = 0 THEN FALSE
        ELSE IF IsNaN(trial_obj_val) /\ trial_rows # <<>> THEN TRUE
        ELSE IF FloatLess(MaxIteration(trial_rows), Num(self.min_iterations))
        THEN FALSE
        ELSE IF Len(comparison_vals) < self.min_trials THEN FALSE
        ELSE IF IsNaN(trial_obj_val) \/ IsNaN(median) THEN FALSE
        ELSE IF lower_is_better
             THEN Val(trial_obj_val) * median.den > median.num
             ELSE Val(trial_obj_val) * median.den < median.num

\* A variant that also stops a trial that equals the median.
MedianStoppingRule_should_trial_stop_OrEqual(self, trial_id, rows, lower_is_better) ==
    LET trial_rows == TrialRows(rows, trial_id)
        trial_obj_val == BestObjective(trial_rows, lower_is_better)
        comparison_vals == ComparisonVals(self, trial_id, rows, lower_is_better)
        median == NanMedian(comparison_vals)
    IN  IF Len(rows) = 0 THEN FALSE
        ELSE IF FloatLess(MaxIteration(trial_rows), Num(self.min_iterations))
        THEN FALSE
        ELSE IF IsNaN(trial_obj_val) /\ trial_rows # <<>> THEN TRUE
        ELSE IF Len(comparison_vals) < self.min_trials THEN FALSE
        ELSE IF IsNaN(trial_obj_val) \/ IsNaN(median) THEN FALSE
        ELSE IF lower_is_better
             THEN Val(trial_obj_val) * median.den >= median.num
             ELSE Val(trial_obj_val) * median.den <= median.num

\* A variant that compares in the opposite direction.
MedianStoppingRule_should_trial_stop_Flipped(self, trial_id, rows, lower_is_better) ==
    LET trial_rows == TrialRows(rows, trial_id)
        trial_obj_val == BestObjective(trial_rows, lower_is_better)
        comparison_vals == ComparisonVals(self, trial_id, rows, lower_is_better)
        median == NanMedian(comparison_vals)
    IN  IF Len(rows) = 0 THEN FALSE
        ELSE IF FloatLess(MaxIteration(trial_rows), Num(self.min_iterations))
        THEN FALSE
        ELSE IF IsNaN(trial_obj_val) /\ trial_rows # <<>> THEN TRUE
        ELSE IF Len(comparison_vals) < self.min_trials THEN FALSE
        ELSE IF IsNaN(trial_obj_val) \/ IsNaN(median) THEN FALSE
        ELSE IF lower_is_better
             THEN Val(trial_obj_val) * median.den < median.num
             ELSE Val(trial_obj_val) * median.den > median.num

\* should_trial_stop; trial_id is trial.id.  A comparison with not-a-number
\* is false.
MedianStoppingRule_should_trial_stop(self, trial_id, rows, lower_is_better) ==
    LET trial_rows == TrialRows(rows, trial_id)
        trial_obj_val == BestObjective(trial_rows, lower_is_better)
        comparison_vals == ComparisonVals(self, trial_id, rows, lower_is_better)
        median == NanMedian(comparison_vals)
    IN  IF Len(rows) = 0 THEN FALSE
        ELSE IF FloatLess(MaxIteration(trial_rows), Num(self.min_iterations))
        THEN FALSE
        ELSE IF IsNaN(trial_obj_val) /\ trial_rows # <<>> THEN TRUE
        ELSE IF Len(comparison_vals) < self.min_trials THEN FALSE
        ELSE IF IsNaN(trial_obj_val) \/ IsNaN(median) THEN FALSE
        ELSE IF lower_is_better
             THEN Val(trial_obj_val) * median.den > median.num
             ELSE Val(trial_obj_val) * median.den < median.num

\* The parameters of the studies the model runs.
ParamA == Choice("a", <<1, 2>>)
ParamB == Ordinal("b", <<1, 2, 3>>)
ParamD == Discrete("d", <<0, 3>>, "linear")
GridParamLists == {<<ParamA>>, <<ParamB, ParamA>>, <<ParamD, ParamA>>}

\* A results table of an earlier run of the study: NumSampleRows trials of
\* one row each, the last still INTERMEDIATE.
NumSampleRows == 12
SampleResults ==
    [k \in 1..NumSampleRows |->
        Row(k, IF k = NumSampleRows THEN "INTERMEDIATE" ELSE "COMPLETED", 1,
            Num(k % 5), [a |-> 1 + (k % 2)])]

\* One get_suggestion call on alg, r, and the same call (same arguments, same
\* random draws) on the twin once it exists, t.
Returns(r, t) ==
    /\ alg' = r.self
    /\ ret' = r.ret
    /\ out' = Append(out, r.ret)
    /\ twin' = IF twin = NoTwin THEN twin ELSE t.self
    /\ twinOut' = IF twin = NoTwin THEN twinOut ELSE Append(twinOut, t.ret)

RandomSearchCall ==
    /\ alg.cls = "RandomSearch"
    /\ Len(out) < MaxCalls
    /\ \E sample \in SampledConfigs(parameters) :
          Returns(RandomSearch_get_suggestion(alg, sample),
                  IF twin = NoTwin THEN twin
                  ELSE RandomSearch_get_suggestion(twin, sample))
    /\ UNCHANGED <<parameters, results, trials>>

\* get_best_result, which every algorithm inherits, called on the study's
\* results table.
GetBestResultCall ==
    /\ ret = NoCall
    /\ \E lower_is_better \in BOOLEAN :
          LET r == Algorithm_get_best_result(alg, parameters, results,
                                             lower_is_better)
          IN  /\ alg' = r.self
              /\ ret' = [lower_is_better |-> lower_is_better,
                         before |-> alg,
                         best_result |-> r.ret]
    /\ UNCHANGED <<out, twin, twinOut, parameters, results, trials>>

\* Line 187 of Iterate.__init__: the constructor's own get_parameters call,
\* whose exception leaves the caller without an Iterate.
IterateConstruct ==
    /\ alg.cls = "Iterate"
    /\ ret = NoCall
    /\ ret' = [call |-> "__init__", outcome |-> Iterate_get_parameters(alg)]
    /\ UNCHANGED <<alg, out, twin, twinOut, parameters, results, trials>>

\* get_parameters called on a constructed Iterate.
GetParametersCall ==
    /\ alg.cls = "Iterate"
    /\ ret # NoCall
    /\ "exception" \notin DOMAIN ret.outcome
    /\ out = <<>>
    /\ out' = <<Iterate_get_parameters(alg)>>
    /\ UNCHANGED <<alg, ret, twin, twinOut, parameters, results, trials>>

IterateCall ==
    /\ alg.cls = "Iterate"
    /\ Len(out) < MaxCalls
    /\ Returns(Iterate_get_suggestion(alg),
               IF twin = NoTwin THEN twin ELSE Iterate_get_suggestion(twin))
    /\ UNCHANGED <<parameters, results, trials>>

GridSearchCall ==
    /\ alg.cls = "GridSearch"
    /\ Len(out) < MaxCalls
    /\ Returns(GridSearch_get_suggestion(alg, parameters),
               IF twin = NoTwin THEN twin
               ELSE GridSearch_get_suggestion(twin, parameters))
    /\ UNCHANGED <<parameters, results, trials>>

GeneticCall ==
    /\ alg.cls = "Genetic"
    /\ Len(out) < MaxCalls
    /\ \E lower_is_better \in BOOLEAN :
       \E rnd \in GeneticDraws(parameters, results, lower_is_better) :
          Returns(Genetic_get_suggestion(alg, parameters, results,
                      lower_is_better, rnd),
                  IF twin = NoTwin THEN twin
                  ELSE Genetic_get_suggestion(twin, parameters, results,
                           lower_is_better, rnd))
    /\ UNCHANGED <<parameters, results, trials>>

\* The number of trials in the study: the suggestions issued so far.
NumTrials(returned) ==
    Len(SelectSeq(returned, LAMBDA v : v # Stop /\ v # Wait))

\* The study is resumed: a second instance is constructed with the same
\* arguments and load(num_trials) is called on it, num_trials being the number
\* of trials in the study so far.
Resume ==
    /\ twin = NoTwin
    /\ twin' = load(Fresh(alg), NumTrials(out))
    /\ UNCHANGED <<alg, ret, out, twinOut, parameters, results, trials>>

\* load(num_trials) is called once more on the resumed instance, before it
\* has been asked for a suggestion.
Reload ==
    /\ twin # NoTwin
    /\ twinOut = <<>>
    /\ twin' = load(twin, NumTrials(out))
    /\ UNCHANGED <<alg, ret, out, twinOut, parameters, results, trials>>

\* The Objective values trials report.
Objectives == {Num(v) : v \in 1..MaxObjective}
OneObjective == {Num(1)}

\* The orchestrator's bookkeeping when a call returned `value`: a
\* configuration becomes a new trial, Stop, Wait and a call that raised
\* allocate nothing.
Allocate(value) ==
    IF value \in {Stop, Wait, KeyError, IndexError, ValueError}
    THEN trials
    ELSE Append(trials, [params |-> value, status |-> "RUNNING", iteration |-> 0])

Running == {t \in 1..Len(trials) : trials[t].status = "RUNNING"}

\* A running trial reports an observation: an INTERMEDIATE row is appended.
Observe(objectives, maxRows) ==
    \E t \in Running, objective \in objectives :
        /\ trials[t].iteration < MaxIterations
        /\ Len(results) < maxRows
        /\ trials' = [trials EXCEPT ![t].iteration = @ + 1]
        /\ results' = Append(results,
               Row(t, "INTERMEDIATE", trials[t].iteration + 1, objective,
                   trials[t].params))
        /\ UNCHANGED <<alg, ret, out, twin, twinOut, parameters>>

\* A running trial finishes: its COMPLETED row is appended.
Finalize(objectives, maxRows) ==
    \E t \in Running, objective \in objectives :
        /\ Len(results) < maxRows
        /\ trials' = [trials EXCEPT ![t].status = "COMPLETED"]
        /\ results' = Append(results,
               Row(t, "COMPLETED", trials[t].iteration, objective,
                   trials[t].params))
        /\ UNCHANGED <<alg, ret, out, twin, twinOut, parameters>>

\* The orchestrator asks Repeat for a suggestion while fewer than
\* MaxConcurrent trials are running.
RepeatCall ==
    /\ alg.cls = "Repeat"
    /\ Len(out) < MaxRepeatCalls
    /\ Cardinality(Running) < MaxConcurrent
    /\ \E lower_is_better \in BOOLEAN :
       \E sample \in SampledConfigs(parameters) :
          LET r == Repeat_get_suggestion(alg, parameters, results,
                       lower_is_better, [sample |-> sample])
          IN  /\ alg' = r.self
              /\ ret' = r.ret
              /\ out' = Append(out, r.ret)
              /\ trials' = Allocate(r.ret)
    /\ UNCHANGED <<twin, twinOut, parameters, results>>

\* The same call, the orchestrator keeping the table it passed and the
\* wrapped algorithm the results argument it was called with.
RepeatConsult ==
    /\ alg.cls = "Repeat"
    /\ Len(out) < MaxRepeatCalls
    /\ Cardinality(Running) < MaxConcurrent
    /\ \E lower_is_better \in BOOLEAN :
       \E sample \in SampledConfigs(parameters) :
          LET r == Repeat_get_suggestion(alg, parameters, results,
                       lower_is_better, [sample |-> sample])
          IN  /\ alg' = r.self
              /\ ret' = [suggestion |-> r.ret,
                         results |-> results,
                         passed |-> r.passed]
              /\ out' = Append(out, r.ret)
              /\ trials' = Allocate(r.ret)
    /\ UNCHANGED <<twin, twinOut, parameters, results>>

ShortStudy ==
    \/ Len(parameters) > 1
    \/ \E k \in 1..Len(parameters) : parameters[k].kind = "Continuous"

\* The calls of LocalSearch that raised so far: those counted by count that
\* returned no batch.
LocalRaises ==
    alg.count - ((Len(out) + alg.repeat_trials - 1) \div alg.repeat_trials)

\* The orchestrator asks LocalSearch for a suggestion, whatever the number
\* of trials still running; at most MaxLocalRaises of the calls raise, and
\* a study of several parameters or of a Continuous one is asked
\* MaxShortStudyCalls times.
\* What a call that returned r leaves behind.
LocalSearchReturn(r, lower_is_better) ==
    /\ r.ret = KeyError => LocalRaises < MaxLocalRaises
    /\ alg' = r.self
    /\ ret' = [lower_is_better |-> lower_is_better, suggestion |-> r.ret]
    /\ out' = IF r.ret = KeyError THEN out ELSE Append(out, r.ret)
    /\ trials' = Allocate(r.ret)

LocalSearchCall ==
    /\ alg.cls = "LocalSearch"
    /\ Len(out) < (IF ShortStudy THEN MaxShortStudyCalls ELSE MaxLocalCalls)
    /\ \E lower_is_better \in BOOLEAN :
       \E shuffle \in Shuffles(parameters) :
          LocalSearchReturn(LocalSearch_get_suggestion(alg, parameters,
                                results, lower_is_better, shuffle),
                            lower_is_better)
    /\ UNCHANGED <<twin, twinOut, parameters, results>>

\* The orchestrator asks Genetic for a suggestion; ret records the
\* suggestion and the two candidates it was bred from.
GeneticBreedCall ==
    /\ alg.cls = "Genetic"
    /\ Len(out) < MaxGeneticCalls
    /\ \E lower_is_better \in BOOLEAN :
       \E rnd \in GeneticDraws(parameters, results, lower_is_better) :
          LET r == Genetic_get_suggestion(alg, parameters, results,
                                          lower_is_better, rnd)
          IN  /\ alg' = r.self
              /\ ret' = [suggestion |-> r.ret,
                         trial_1_params |-> r.trial_1_params,
                         trial_2_params |-> r.trial_2_params]
              /\ out' = Append(out, r.ret)
    /\ UNCHANGED <<twin, twinOut, parameters, results, trials>>

\* GridSearch builds its candidate lists; ret records them.
GetParamDictCall ==
    /\ alg.cls = "GridSearch"
    /\ ret = NoCall
    /\ ret' = [param_dict |-> GridSearch_get_param_dict(alg, parameters)]
    /\ UNCHANGED <<alg, out, twin, twinOut, parameters, results, trials>>

\* The lower_is_better values the studies pass: both in a population of up
\* to two, True in a larger one.
PBTDirections == IF alg.population_size <= 2 THEN BOOLEAN ELSE {TRUE}

\* What a call that ended with r leaves behind: out logs the outcome of
\* every call, a suggestion or the exception raised, and ret keeps whether
\* the call was given the COMPLETED rows of a whole generation before its
\* own.
PBTReturn(r, lower_is_better) ==
    /\ alg' = r.self
    /\ ret' = [lower_is_better |-> lower_is_better, suggestion |-> r.ret,
               complete |-> Len(PBT_generation_df(results,
                                    r.self.generation - 1))
                                = alg.population_size]
    /\ out' = Append(out, r.ret)
    /\ trials' = Allocate(r.ret)

\* The orchestrator asks PopulationBasedTraining for a suggestion, at any
\* time: trials of the generation before may still be running or may not
\* have started.  A study is asked MaxPBTCalls times at most.
PBTCall ==
    /\ alg.cls = "PopulationBasedTraining"
    /\ alg.count < MaxGenerations * alg.population_size
    /\ alg.count < MaxPBTCalls
    /\ \E lower_is_better \in PBTDirections :
       \E rnd \in PBTDraws(alg, parameters, results, lower_is_better) :
          PBTReturn(PBT_get_suggestion(alg, parameters, results,
                                       lower_is_better, rnd),
                    lower_is_better)
    /\ UNCHANGED <<twin, twinOut, parameters, results>>

\* The oldest running trial of the population finishes.  In a population of
\* up to two the members of generation 1 report the same Objective, so that
\* sort_values may place any of them at any position; every other trial t
\* reports t.
PBTFinalize ==
    /\ alg.cls = "PopulationBasedTraining"
    /\ \E t \in Running :
          /\ \A u \in Running : t <= u
          /\ \E objective \in (IF t <= alg.population_size
                                  /\ alg.population_size <= 2
                               THEN OneObjective ELSE {Num(t)}) :
                /\ trials' = [trials EXCEPT ![t].status = "COMPLETED"]
                /\ results' = Append(results,
                       Row(t, "COMPLETED", 1, objective, trials[t].params))
    /\ UNCHANGED <<alg, ret, out, twin, twinOut, parameters>>

\* The trials of the study the stopping rule watches, and the Objective
\* values they report.
TrialIds == {1, 2, 3}
ReportedObjectives == {NaN, Num(1), Num(2), Num(3)}

\* A trial reports its next iteration.  Trials run one after the other: a
\* trial reports only while no later trial has.
AddRow ==
    /\ alg.cls = "MedianStoppingRule"
    /\ ret = NoCall
    /\ Len(results) < MaxMedianRows
    /\ \E t \in TrialIds, objective \in ReportedObjectives :
          /\ \A k \in 1..Len(results) : results[k].TrialID <= t
          /\ results' = Append(results,
                 Row(t, "INTERMEDIATE", Len(TrialRows(results, t)) + 1,
                     objective, EmptyDict))
    /\ UNCHANGED <<alg, ret, out, twin, twinOut, parameters, trials>>

\* The orchestrator asks whether a trial should stop; ret records the call
\* and the decision.
ShouldTrialStopCall ==
    /\ alg.cls = "MedianStoppingRule"
    /\ ret = NoCall
    /\ \E t \in TrialIds, lower_is_better \in BOOLEAN :
          ret' = [trial |-> t,
                  lower_is_better |-> lower_is_better,
                  decision |-> MedianStoppingRule_should_trial_stop(
                                   alg, t, results, lower_is_better)]
    /\ UNCHANGED <<alg, out, twin, twinOut, parameters, results, trials>>

InitCommon ==
    /\ ret = NoCall
    /\ out = <<>>
    /\ twin = NoTwin
    /\ twinOut = <<>>
    /\ trials = <<>>

InitRandomSearch ==
    /\ InitCommon
    /\ parameters = <<ParamA>>
    /\ results = <<>>
    /\ \E n \in 0..MaxTrials, m \in 1..MaxRepeat : alg = RandomSearch(n, m)

\* Lists of at most MaxListLen fully specified configurations.
HpIters ==
    UNION {[1..len -> SampledConfigs(<<ParamA>>)] : len \in 1..MaxListLen}

InitIterate ==
    /\ InitCommon
    /\ parameters = <<ParamA>>
    /\ results = <<>>
    /\ \E hp_iter \in HpIters : alg = Iterate(hp_iter)

\* Configurations over the keys a and b in either insertion order, any of
\* the keys possibly absent.
KeyOrders == {<<>>, <<"a">>, <<"b">>, <<"a", "b">>, <<"b", "a">>}
OrderedConfigs ==
    UNION {{[k \in 1..Len(keys) |-> <<keys[k], vals[k]>>] :
               vals \in [1..Len(keys) -> {1, 2}]} : keys \in KeyOrders}
OrderedHpIters ==
    UNION {[1..len -> OrderedConfigs] : len \in 0..MaxListLen}

\* The state of Iterate.__init__ after its two assignments.
InitGetParameters ==
    /\ InitCommon
    /\ parameters = <<>>
    /\ results = <<>>
    /\ \E hp_iter \in OrderedHpIters : alg = Iterate(hp_iter)

\* Results tables of at most MaxBestRows rows, one trial per row, any of
\* them without a measured Objective.
BestResultTables ==
    UNION {{[k \in 1..len |->
                Row(k, status[k], 1, objective[k], [a |-> 1])] :
               status \in [1..len -> {"INTERMEDIATE", "COMPLETED"}],
               objective \in [1..len -> {NaN} \cup Objectives]} :
           len \in 0..MaxBestRows}

InitBestResult ==
    /\ InitCommon
    /\ parameters = <<ParamA>>
    /\ results \in BestResultTables
    /\ alg \in {RandomSearch(0, 1), Iterate(<<[a |-> 1]>>)}

InitGridSearch ==
    /\ InitCommon
    /\ parameters \in GridParamLists
    /\ results = <<>>
    /\ \E k \in 1..MaxGridPoints, m \in 1..MaxRepeat : alg = GridSearch(k, m)

InitGenetic ==
    /\ InitCommon
    /\ parameters = <<ParamA>>
    /\ results \in {<<>>, SampleResults}
    /\ \E rate \in 0..ProbDen, n \in 0..MaxTrials : alg = Genetic(rate, n)

\* Repeat around an Iterate or a RandomSearch.
InitRepeat ==
    /\ InitCommon
    /\ parameters = <<ParamA>>
    /\ results = <<>>
    /\ \E inner \in {Iterate(<<[a |-> 1], [a |-> 2]>>), RandomSearch(0, 1)},
          num_times \in 1..MaxRepeat, wait_for_completion \in BOOLEAN :
          alg = Repeat(inner, num_times, wait_for_completion)

NextRepeat ==
    RepeatCall \/ Observe(OneObjective, MaxRows) \/ Finalize(OneObjective, MaxRows)

SpecRepeat == InitRepeat /\ [][NextRepeat]_vars

\* The studies whose trials report different Objectives, or none: Repeat
\* around a sampler that never stops.
MeasuredObjectives == {NaN, Num(1), Num(2)}

InitAggregate ==
    /\ InitCommon
    /\ parameters = <<ParamA>>
    /\ results = <<>>
    /\ \E num_times \in 1..MaxRepeat, wait_for_completion \in BOOLEAN :
          alg = Repeat(RandomSearch(0, 1), num_times, wait_for_completion)

NextAggregate ==
    \/ RepeatConsult
    \/ Observe(MeasuredObjectives, MaxRows)
    \/ Finalize(MeasuredObjectives, MaxRows)

SpecAggregate == InitAggregate /\ [][NextAggregate]_vars

\* The LocalSearch studies: a parameter list and a seed configuration.
ParamO == Ordinal("b", <<1, 2, 3, 4>>)
ParamN == Discrete("d", <<2, 6>>, "linear")
ParamC == Continuous("c", <<1, 4>>, "linear")
LocalStudies ==
    {[parameters |-> <<ParamO>>, seed |-> [b |-> 2]],
     [parameters |-> <<ParamN>>, seed |-> [d |-> 5]],
     [parameters |-> <<ParamC>>, seed |-> [c |-> FloatOfNat(3)]],
     [parameters |-> <<ParamA, ParamO>>, seed |-> [a |-> 1, b |-> 4]]}

InitLocalSearch ==
    /\ InitCommon
    /\ results = <<>>
    /\ \E study \in LocalStudies, repeat_trials \in 1..MaxRepeat :
          /\ parameters = study.parameters
          /\ alg = LocalSearch(study.seed, DefaultFactors, repeat_trials)

NextLocalSearch ==
    LocalSearchCall \/ Finalize(MeasuredObjectives, MaxLocalRows)

SpecLocalSearch == InitLocalSearch /\ [][NextLocalSearch]_vars

\* The PopulationBasedTraining studies.
ParamS == Discrete("d", <<2, 3>>, "linear")
ParamT == Ordinal("b", <<1, 2>>)
ParamR == Continuous("c", <<2, 3>>, "linear")
PBTStudies ==
    {[population_size |-> 1, parameters |-> <<ParamA>>,
      parameter_range |-> EmptyDict],
     [population_size |-> 2, parameters |-> <<ParamT>>,
      parameter_range |-> EmptyDict],
     [population_size |-> MinResampling, parameters |-> <<ParamA>>,
      parameter_range |-> EmptyDict],
     [population_size |-> MinResampling, parameters |-> <<ParamT>>,
      parameter_range |-> [b |-> <<1, 2, 3>>]],
     [population_size |-> MinResampling, parameters |-> <<ParamS>>,
      parameter_range |-> [d |-> <<1, 4>>]],
     [population_size |-> MinResampling, parameters |-> <<ParamR>>,
      parameter_range |-> EmptyDict]}

InitPBT ==
    /\ InitCommon
    /\ results = <<>>
    /\ \E study \in PBTStudies :
          /\ parameters = study.parameters
          /\ alg = PopulationBasedTraining(study.population_size,
                                           study.parameter_range, PBTFactors)

SpecPBT == InitPBT /\ [][PBTCall \/ PBTFinalize]_vars

\* The parameters whose candidate lists are built: a Choice, an Ordinal,
\* a linear-scale Discrete and Continuous parameter over each of GridRanges
\* and a log-scale one over each of GridLogRanges.
GridRanges == {<<0, 1>>, <<0, 3>>, <<1, 2>>, <<2, 7>>, <<0, 55>>, <<0, 90>>}
GridLogRanges == {<<1, 10>>, <<1, 100>>, <<10, 1000>>, <<1, 1000>>}
GridParams ==
    {ParamA, ParamB}
        \cup {Discrete("d", range, "linear") : range \in GridRanges}
        \cup {Continuous("c", range, "linear") : range \in GridRanges}
GridLogParams ==
    {Discrete("d", range, "log") : range \in GridLogRanges}
        \cup {Continuous("c", range, "log") : range \in GridLogRanges}

InitGrid ==
    /\ InitCommon
    /\ results = <<>>
    /\ \/ \E p \in GridParams, k \in 1..MaxGridK :
             /\ parameters = <<p>>
             /\ alg = GridSearch(k, 1)
       \/ \E p \in GridLogParams, k \in 1..MaxLogGridK :
             /\ parameters = <<p>>
             /\ alg = GridSearch(k, 1)

SpecGrid == InitGrid /\ [][GetParamDictCall]_vars

\* A results table of ten COMPLETED trials, trial k with Objective k, the
\* first five with a = 1 and the others with a = 2.
BredResults ==
    [k \in 1..min_candidates |->
        Row(k, "COMPLETED", 1, Num(k), [a |-> IF k <= 5 THEN 1 ELSE 2])]

InitBreed ==
    /\ InitCommon
    /\ parameters = <<ParamA>>
    /\ results \in {<<>>, BredResults}
    /\ \E rate \in 0..ProbDen, n \in 0..MaxTrials : alg = Genetic(rate, n)

SpecBreed == InitBreed /\ [][GeneticBreedCall]_vars

InitMedian ==
    /\ InitCommon
    /\ parameters = <<>>
    /\ results = <<>>
    /\ \E min_iterations \in 0..MaxTrials, min_trials \in 0..MaxTrials :
          alg = MedianStoppingRule(min_iterations, min_trials)

SpecMedian == InitMedian /\ [][AddRow \/ ShouldTrialStopCall]_vars

SpecRandomSearch == InitRandomSearch /\ [][RandomSearchCall \/ Resume]_vars

SpecGetParameters ==
    InitGetParameters /\ [][IterateConstruct \/ GetParametersCall]_vars

SpecBestResult == InitBestResult /\ [][GetBestResultCall]_vars

SpecIterate == InitIterate /\ [][IterateCall \/ Resume \/ Reload]_vars

InitSamplers == InitRandomSearch \/ InitIterate \/ InitGridSearch \/ InitGenetic

NextSamplers ==
    RandomSearchCall \/ IterateCall \/ GridSearchCall \/ GeneticCall \/ Resume

SpecSamplers == InitSamplers /\ [][NextSamplers]_vars

(***************************************************************************)
(* Properties.                                                             *)
(***************************************************************************)
\* The first call of the run of `m` consecutive calls that call p belongs to.
BlockStart(p, m) == ((p - 1) \div m) * m + 1

\* C1: RandomSearch with repeat = m returns each sampled configuration on m
\* consecutive calls before a new sample appears: every returned
\* configuration is the one returned at the start of its block of m calls,
\* and while configurations are returned one sample has been drawn per block
\* started (i), the repeat counter j counting the calls of the current block.
C1_RepeatBlocks ==
    alg.cls = "RandomSearch" =>
        /\ \A p \in 1..Len(out) :
              out[p] # Stop => out[p] = out[BlockStart(p, alg.m)]
        /\ (Len(out) > 0 /\ ret # Stop) =>
              /\ alg.i = ((Len(out) - 1) \div alg.m) + 1
              /\ alg.j = Len(out) - (alg.i - 1) * alg.m
              /\ alg.j \in 1..alg.m
              /\ ret = alg.theta_i

\* C1 witness: with repeat = 2, two full blocks were returned and a third
\* sample, different from the second, has appeared.
C1_Witness ==
    /\ alg.cls = "RandomSearch"
    /\ alg.m = 2
    /\ Len(out) = 5
    /\ out[5] # Stop
    /\ out[5] # out[4]
    /\ out[3] # out[2]

\* C2: RandomSearch with max_num_trials = n >= 1 and repeat = m returns
\* configurations on the first n*m calls and Stop on every call after them,
\* which are the calls on which the sample index i exceeds n.
C2_StopAfterCap ==
    (alg.cls = "RandomSearch" /\ alg.n # Unbounded) =>
        /\ \A p \in 1..Len(out) : (out[p] = Stop) <=> (p > alg.n * alg.m)
        /\ Len(out) > 0 => ((ret = Stop) <=> (alg.i > alg.n))

\* C2 witness: n = 2, m = 2, four configurations then Stop on call 5.
C2_Witness ==
    /\ alg.cls = "RandomSearch"
    /\ alg.n = 2
    /\ alg.m = 2
    /\ Len(out) = 5
    /\ out[4] # Stop
    /\ out[5] = Stop

\* C3: for RandomSearch, Iterate, GridSearch and Genetic, once a call has
\* returned Stop every later call returns Stop.
C3_StopIsPermanent ==
    alg.cls \in {"RandomSearch", "Iterate", "GridSearch", "Genetic"} =>
        \A p, q \in 1..Len(out) : (p < q /\ out[p] = Stop) => out[q] = Stop

\* C3 witness: a GridSearch returned its whole grid, then Stop twice.
C3_Witness ==
    /\ alg.cls = "GridSearch"
    /\ Len(out) >= 4
    /\ out[Len(out) - 2] # Stop
    /\ out[Len(out) - 1] = Stop
    /\ out[Len(out)] = Stop

\* C4: Iterate returns the entries of hp_iter in list order, then Stop;
\* load(n) sets the cursor to n, also when called twice; and the instance
\* that was load(n)-ed returns, call for call, what the instance that made
\* the n calls returns from there on.
C4_IterateSequence ==
    alg.cls = "Iterate" =>
        /\ \A p \in 1..Len(out) :
              out[p] = IF p <= Len(alg.hp_iter) THEN alg.hp_iter[p] ELSE Stop
        /\ (twin # NoTwin /\ twinOut = <<>>) =>
              twin = [Iterate(alg.hp_iter) EXCEPT !.count = NumTrials(out)]
        /\ twin # NoTwin =>
              twinOut = SubSeq(out, Len(out) - Len(twinOut) + 1, Len(out))

\* C4 witness: a list of three entries; the twin was loaded after the first
\* call and has since returned the second and third entries and then Stop.
C4_Witness ==
    /\ alg.cls = "Iterate"
    /\ Len(alg.hp_iter) = 3
    /\ twin # NoTwin
    /\ Len(out) = 4
    /\ Len(twinOut) = 3
    /\ twinOut[2] = alg.hp_iter[3]
    /\ twinOut[3] = Stop

\* C5: load(k) on a fresh instance leaves it equivalent to an instance that
\* made k successful calls: resumed, it returns Stop on exactly the calls on
\* which the uninterrupted instance does, and a resumed GridSearch returns
\* the same grid points.
C5_LoadResumes ==
    (alg.cls \in {"RandomSearch", "GridSearch", "Genetic"} /\ twin # NoTwin) =>
        \A p \in 1..Len(twinOut) :
            LET q == Len(out) - Len(twinOut) + p
            IN  /\ (twinOut[p] = Stop) <=> (out[q] = Stop)
                /\ alg.cls = "GridSearch" => twinOut[p] = out[q]

\* The values Repeat returned that are not Wait, in call order.
NonWait(returned) == SelectSeq(returned, LAMBDA v : v # Wait)

\* Whether trial t has a COMPLETED row in the results table.
HasCompletedRow(t) ==
    \E k \in 1..Len(results) :
        results[k].TrialID = t /\ results[k].Status = "COMPLETED"

\* C6: with wait_for_completion, a call that consults the wrapped algorithm
\* (the queue was empty and the call did not return Wait) is made only when
\* every trial issued before it has a COMPLETED row in results.
C6_WaitsForCompletion ==
    [][(/\ alg.cls = "Repeat"
        /\ alg.wait_for_completion
        /\ Len(out') = Len(out) + 1
        /\ Len(alg.queue) = 0
        /\ ret' # Wait)
       => \A t \in 1..Len(trials) : HasCompletedRow(t)]_vars

\* C7: Repeat returns every value of the wrapped algorithm on num_times
\* consecutive non-Wait calls, consulting it once per num_times non-Wait
\* returns and never on a call that returns Wait: the non-Wait values come in
\* constant blocks of num_times, the queue holds the copies of the current
\* block still to be returned (0..num_times-1 of them), and the wrapped
\* algorithm has been asked exactly once per block started.
C7_RepeatsNumTimes ==
    alg.cls = "Repeat" =>
        LET nw == NonWait(out)
            nt == alg.num_times
            blocks == (Len(nw) + nt - 1) \div nt
        IN  /\ \A p \in 1..Len(nw) : nw[p] = nw[BlockStart(p, nt)]
            /\ Len(alg.queue) = (nt - (Len(nw) % nt)) % nt
            /\ Len(alg.queue) \in 0..(nt - 1)
            /\ \A k \in 1..Len(alg.queue) : alg.queue[k] = nw[Len(nw)]
            /\ alg.algorithm.cls = "RandomSearch" => alg.algorithm.i = blocks
            /\ alg.algorithm.cls = "Iterate" =>
                  /\ alg.algorithm.count =
                        IF blocks <= Len(alg.algorithm.hp_iter)
                        THEN blocks ELSE Len(alg.algorithm.hp_iter)
                  /\ \A p \in 1..Len(nw) :
                        LET b == ((p - 1) \div nt) + 1
                        IN  nw[p] = IF b <= Len(alg.algorithm.hp_iter)
                                    THEN alg.algorithm.hp_iter[b] ELSE Stop

\* C7 witness: num_times = 2; the first value was returned twice, then a
\* call returned Wait, then a second, different value was returned.
C7_Witness ==
    /\ alg.cls = "Repeat"
    /\ alg.num_times = 2
    /\ Len(out) = 4
    /\ out[1] = out[2]
    /\ out[3] = Wait
    /\ out[4] \notin {Wait, Stop}
    /\ out[4] # out[1]
    /\ Len(alg.queue) = 1

\* C8 as stated: no two calls of one LocalSearch return equal non-Stop
\* configurations.
C8_NoEqualConfigurations ==
    alg.cls = "LocalSearch" =>
        \A p, q \in 1..Len(out) : (p < q /\ out[p] # Stop) => out[p] # out[q]

\* C8, amended: every batch is one value returned on repeat_trials
\* consecutive calls, and equal non-Stop configurations are only ever
\* returned within one batch, never by two batches.
C8_NoEqualBatches ==
    alg.cls = "LocalSearch" =>
        /\ \A p \in 1..Len(out) : out[p] = out[BlockStart(p, alg.repeat_trials)]
        /\ \A p, q \in 1..Len(out) :
              (out[p] # Stop /\ out[p] = out[q]) =>
                  BlockStart(p, alg.repeat_trials) = BlockStart(q, alg.repeat_trials)
        /\ alg.repeat_trials = 1 =>
              \A p, q \in 1..Len(out) : (p < q /\ out[p] # Stop) => out[p] # out[q]

\* C8 witness: repeat_trials = 2; the seed was returned twice, a trial
\* completed, and a perturbed configuration was returned twice.
C8_Witness ==
    /\ alg.cls = "LocalSearch"
    /\ alg.repeat_trials = 2
    /\ Len(out) = 4
    /\ Len(results) > 0
    /\ out[1] = out[2]
    /\ out[3] = out[4]
    /\ out[3] # Stop
    /\ out[3] # out[1]

\* C9: once LocalSearch has returned Stop, every later call returns Stop.
C9_LocalStopIsPermanent ==
    alg.cls = "LocalSearch" =>
        \A p, q \in 1..Len(out) : (p < q /\ out[p] = Stop) => out[q] = Stop

\* The best-so-far Objective of trial tid: the least (lower_is_better) or
\* greatest of its Objectives that are numbers, as a set (empty if none).
BestSoFar(tid, lower_is_better) ==
    LET vals == {Val(results[k].Objective) : k \in
                    {i \in 1..Len(results) :
                        results[i].TrialID = tid /\ ~IsNaN(results[i].Objective)}}
    IN  {v \in vals : \A w \in vals : IF lower_is_better THEN v <= w ELSE v >= w}

\* Whether trial tid has a row and its greatest Iteration is at least n.
Reached(tid, n) ==
    /\ \E k \in 1..Len(results) : results[k].TrialID = tid
    /\ \A k \in 1..Len(results) : results[k].TrialID = tid =>
          \E i \in 1..Len(results) :
              /\ results[i].TrialID = tid
              /\ results[i].Iteration >= results[k].Iteration
              /\ results[i].Iteration >= n

\* The k-th smallest value among the best-so-far values of the trials in T:
\* fewer than k of them are below it and at least k are not above it.
KthSmallest(T, lower_is_better, k) ==
    CHOOSE x \in UNION {BestSoFar(t, lower_is_better) : t \in T} :
        /\ Cardinality({t \in T : \E v \in BestSoFar(t, lower_is_better) : v < x}) < k
        /\ Cardinality({t \in T : \E v \in BestSoFar(t, lower_is_better) : v <= x}) >= k

\* C10: for a trial with rows that has reached min_iterations, whose
\* best-so-far value v is a number, with at least min_trials other trials
\* having reached min_iterations: should_trial_stop is true exactly if v is
\* strictly worse than the median of the comparison values that are
\* numbers (the middle one of an odd count, the mean of the two middle ones
\* of an even count); with no such value it is false.
C10_StopsIffWorseThanMedian ==
    (alg.cls = "MedianStoppingRule" /\ ret # NoCall) =>
        LET lib == ret.lower_is_better
            others == {t \in TrialIds \ {ret.trial} : Reached(t, alg.min_iterations)}
            valued == {t \in others : BestSoFar(t, lib) # {}}
            n == Cardinality(valued)
            \* twice the median
            median2 == IF n % 2 = 1
                       THEN 2 * KthSmallest(valued, lib, (n + 1) \div 2)
                       ELSE KthSmallest(valued, lib, n \div 2)
                                + KthSmallest(valued, lib, (n \div 2) + 1)
        IN  (/\ Reached(ret.trial, alg.min_iterations)
             /\ BestSoFar(ret.trial, lib) # {}
             /\ Cardinality(others) >= alg.min_trials)
            => \A v \in BestSoFar(ret.trial, lib) :
                  ret.decision <=>
                      /\ n > 0
                      /\ IF lib THEN 2 * v > median2 ELSE 2 * v < median2

\* C10 witness: lower is better; the trial's best value 2 equals the median
\* of the two comparison values 1 and 3, and it is not stopped.
C10_Witness ==
    /\ alg.cls = "MedianStoppingRule"
    /\ alg.min_trials = 2
    /\ alg.min_iterations = 1
    /\ ret # NoCall
    /\ ret.lower_is_better
    /\ ret.trial = 2
    /\ BestSoFar(2, TRUE) = {2}
    /\ BestSoFar(1, TRUE) = {1}
    /\ BestSoFar(3, TRUE) = {3}
    /\ ~ret.decision

\* Whether trial tid has a row in results.
HasRows(tid) == \E k \in 1..Len(results) : results[k].TrialID = tid

\* The other trials that have reached min_iterations.
Qualifying(tid) == {t \in TrialIds \ {tid} : Reached(t, alg.min_iterations)}

\* C11: for a trial that has reached min_iterations and whose Objective
\* values are all not-a-number, should_trial_stop is true, whatever
\* lower_is_better and the other trials are.
C11_AllNaNStops ==
    (alg.cls = "MedianStoppingRule" /\ ret # NoCall) =>
        ((/\ Reached(ret.trial, alg.min_iterations)
          /\ BestSoFar(ret.trial, ret.lower_is_better) = {})
         => ret.decision)

\* C11 witness: a trial with two not-a-number rows is stopped although only
\* one other trial has rows and min_trials is 2.
C11_Witness ==
    /\ alg.cls = "MedianStoppingRule"
    /\ alg.min_trials = 2
    /\ alg.min_iterations = 2
    /\ ret # NoCall
    /\ Len(TrialRows(results, ret.trial)) = 2
    /\ BestSoFar(ret.trial, ret.lower_is_better) = {}
    /\ Cardinality(Qualifying(ret.trial)) < 2
    /\ Len(results) = 3
    /\ ret.decision

\* C12 as stated: for a trial with no rows of its own in a non-empty
\* results table, should_trial_stop is true.
C12_UnmeasuredStops ==
    (alg.cls = "MedianStoppingRule" /\ ret # NoCall) =>
        ((Len(results) > 0 /\ ~HasRows(ret.trial)) => ret.decision)

\* C12, amended: for a trial with no rows of its own in a non-empty results
\* table, should_trial_stop is false.
C12_UnmeasuredNotStopped ==
    (alg.cls = "MedianStoppingRule" /\ ret # NoCall) =>
        ((Len(results) > 0 /\ ~HasRows(ret.trial)) => ~ret.decision)

\* C12 witness: trial 3 has no rows, two other trials qualify as comparison
\* trials with values that are numbers, min_trials is 2, and trial 3 is not
\* stopped.
C12_Witness ==
    /\ alg.cls = "MedianStoppingRule"
    /\ alg.min_trials = 2
    /\ ret # NoCall
    /\ ret.trial = 3
    /\ ~HasRows(3)
    /\ Qualifying(3) = {1, 2}
    /\ BestSoFar(1, ret.lower_is_better) # {}
    /\ BestSoFar(2, ret.lower_is_better) # {}
    /\ ~ret.decision

\* C13: should_trial_stop is false (a) on empty results, (b) for a trial
\* whose greatest Iteration is below min_iterations, (c) for a trial whose
\* best-so-far value is a number while fewer than min_trials other trials
\* have reached min_iterations.
C13_GuardsReturnFalse ==
    (alg.cls = "MedianStoppingRule" /\ ret # NoCall) =>
        /\ Len(results) = 0 => ~ret.decision
        /\ (HasRows(ret.trial) /\ ~Reached(ret.trial, alg.min_iterations))
              => ~ret.decision
        /\ (/\ BestSoFar(ret.trial, ret.lower_is_better) # {}
            /\ Cardinality(Qualifying(ret.trial)) < alg.min_trials)
              => ~ret.decision

\* C13 witness: a trial whose only row is not-a-number at Iteration 1, with
\* min_iterations 2, is not stopped.
C13_Witness ==
    /\ alg.cls = "MedianStoppingRule"
    /\ alg.min_iterations = 2
    /\ ret # NoCall
    /\ Len(TrialRows(results, ret.trial)) = 1
    /\ BestSoFar(ret.trial, ret.lower_is_better) = {}
    /\ ~ret.decision

\* lineage.split(','): the fields between the commas of a token string; a
\* field is one numeral or empty.
RECURSIVE Split(_)
Split(tokens) ==
    IF \A k \in 1..Len(tokens) : tokens[k] # ","
    THEN <<IF tokens = <<>> THEN "" ELSE tokens[1]>>
    ELSE LET k == CHOOSE i \in 1..Len(tokens) :
                      tokens[i] = "," /\ \A q \in 1..(i - 1) : tokens[q] # ","
         IN  <<IF k = 1 THEN "" ELSE tokens[1]>>
                 \o Split(SubSeq(tokens, k + 1, Len(tokens)))

\* Whether a call ended with a suggestion, not with an exception.
IsSuggestion(t) == "exception" \notin DOMAIN t

\* The suggestions PopulationBasedTraining returned, in the order of the
\* calls.
PBTSuggestions == SelectSeq(out, IsSuggestion)

\* The suggestions of generation g that were saved to save_to.
SavedBy(g, save_to) ==
    {q \in 1..Len(PBTSuggestions) :
        PBTSuggestions[q].generation = g /\ PBTSuggestions[q].save_to = save_to}

\* C14: every suggestion of a generation g > 1 loads from the save_to of
\* exactly one suggestion of generation g - 1, and the numerals of its
\* lineage, split on commas (a last empty field follows the closing comma),
\* are the save_to of one ancestor per earlier generation, oldest first,
\* each loaded from the one before it, the first having lineage '' and the
\* last being the suggestion's load_from.
C14_Lineage ==
    alg.cls = "PopulationBasedTraining" =>
        \A p \in 1..Len(PBTSuggestions) :
            LET t == PBTSuggestions[p]
                g == t.generation
                fields == Split(t.lineage)
            IN  /\ g = 1 => (t.lineage = <<>> /\ t.load_from = "")
                /\ g > 1 =>
                      /\ Cardinality(SavedBy(g - 1, t.load_from)) = 1
                      /\ Len(fields) = g
                      /\ fields[g] = ""
                      /\ fields[g - 1] = t.load_from
                      /\ \A i \in 1..(g - 1) :
                            \E q \in SavedBy(i, fields[i]) :
                                /\ Cardinality(SavedBy(i, fields[i])) = 1
                                /\ i = 1 => PBTSuggestions[q].lineage = <<>>
                                /\ i > 1 => PBTSuggestions[q].load_from = fields[i - 1]

\* C14 witness: a suggestion of generation 3 in a population of two whose
\* two ancestors are not the trials at its own position.
C14_Witness ==
    /\ alg.cls = "PopulationBasedTraining"
    /\ alg.population_size = 2
    /\ Len(out) = 6
    /\ \A p \in 1..6 : IsSuggestion(out[p])
    /\ Len(results) >= 4
    /\ out[6].generation = 3
    /\ out[6].lineage = <<"1", ",", "4", ",">>
    /\ out[6].load_from = "4"
    /\ out[6].save_to = "6"

\* The product of the lengths of the candidate lists of the names in S.
RECURSIVE Volume(_, _)
Volume(lists, S) ==
    IF S = {} THEN 1
    ELSE LET nm == CHOOSE x \in S : TRUE
         IN  Len(lists[nm]) * Volume(lists, S \ {nm})

\* The names of S that come after nm in alphabetical order.
After(nm, S) ==
    {x \in S : \E i, j \in 1..Len(NameOrder) :
                  i < j /\ NameOrder[i] = nm /\ NameOrder[j] = x}

\* Grid point i (0-based) of the cartesian product of the candidate lists,
\* the alphabetically last name varying fastest.
GridPoint(lists, i) ==
    [nm \in DOMAIN lists |->
        lists[nm][((i \div Volume(lists, After(nm, DOMAIN lists)))
                      % Len(lists[nm])) + 1]]

\* C15: the grid has as many points as the product of the candidate counts;
\* with repeat = m call p returns grid point (p - 1) div m of the cartesian
\* product while p <= |grid| * m, and Stop afterwards.
C15_GridTraversal ==
    (alg.cls = "GridSearch" /\ Len(out) > 0) =>
        LET lists == GridSearch_get_param_dict(alg, parameters)
            size == Volume(lists, DOMAIN lists)
        IN  /\ Len(alg.grid) = size
            /\ \A p \in 1..Len(out) :
                  out[p] = IF p <= size * alg.m
                           THEN GridPoint(lists, (p - 1) \div alg.m)
                           ELSE Stop

\* C15 witness: a grid over two parameters with two candidates each was
\* returned point by point, and the fifth call returned Stop.
C15_Witness ==
    /\ alg.cls = "GridSearch"
    /\ alg.m = 1
    /\ Len(parameters) = 2
    /\ Len(alg.grid) = 4
    /\ Len(out) = 5
    /\ out[2] # out[3]
    /\ out[4] # Stop
    /\ out[5] = Stop

\* Whether the float x is strictly between the natural numbers lo and hi.
StrictlyBetween(x, lo, hi) ==
    /\ FloatInt(x) < hi
    /\ FloatInt(x) > lo \/ (FloatInt(x) = lo /\ x.scale > 0)

\* The natural number below x * 2^16, for a float x < 2^14.
Scaled16(x) ==
    LET fraction == FloatFraction(x) \o [k \in 1..16 |-> 0]
    IN  FloatInt(x) * 2^16 + BitsToNat(SubSeq(fraction, 1, 16))

\* C16: the candidate list of a Choice or Ordinal parameter is its range;
\* that of a linear-scale Continuous or Discrete parameter with bounds
\* [low, high] has k = num_grid_points entries, the i-th being
\* low + (high - low) * i / (k + 1)
\* (for Continuous to within 2^-16), truncated to an integer for Discrete,
\* strictly inside (low, high) for Continuous and within [low, high] for
\* Discrete.
C16_GridCandidates ==
    (alg.cls = "GridSearch" /\ ret # NoCall /\ Len(parameters) = 1) =>
        LET p == parameters[1]
            list == ret.param_dict[p.name]
            k == alg.num_grid_points
            low == p.range[1]
            high == p.range[2]
        IN  IF p.kind \in {"Choice", "Ordinal"} THEN list = p.range
            ELSE p.scale = "linear" =>
                 /\ Len(list) = k
                 /\ \A i \in 1..k :
                       LET num == low * (k + 1) + (high - low) * i
                       IN  IF p.kind = "Discrete"
                           THEN /\ list[i] = num \div (k + 1)
                                /\ low <= list[i]
                                /\ list[i] <= high
                           ELSE /\ StrictlyBetween(list[i], low, high)
                                /\ Scaled16(list[i]) - ((num * 2^16) \div (k + 1))
                                       \in {0 - 1, 0, 1}

\* C17: with mutation_rate = 0 every value of a returned suggestion is the
\* value of that parameter in one of the two candidates of the call.
C17_NoMutation ==
    (alg.cls = "Genetic" /\ ret # NoCall /\ alg.mutation_rate = 0) =>
        (ret.suggestion # Stop =>
            \A nm \in DOMAIN ret.suggestion :
                ret.suggestion[nm] \in
                    {ret.trial_1_params[nm], ret.trial_2_params[nm]})

\* C17 witness: mutation_rate = 0 and higher is better; both candidates come
\* from the top third of the results table, where a is 2, and so does the
\* suggestion, of which two have been returned.
C17_Witness ==
    /\ alg.cls = "Genetic"
    /\ alg.mutation_rate = 0
    /\ results # <<>>
    /\ ret # NoCall
    /\ Len(out) = 2
    /\ ret.suggestion # Stop
    /\ ret.trial_1_params.a = 2
    /\ ret.trial_2_params.a = 2
    /\ ret.suggestion.a = 2

\* The number of suggestions among the first p returned values.
Suggested(p) == Cardinality({q \in 1..p : out[q] # Stop})

\* C18: Genetic with max_num_trials = n >= 1 counts the suggestions it has
\* returned; the first n calls return configurations whose keys are the
\* declared parameter names, and every later call returns Stop.
C18_StopsAtMaxNumTrials ==
    (alg.cls = "Genetic" /\ alg.max_num_trials >= 1) =>
        /\ alg.count = Suggested(Len(out))
        /\ \A p \in 1..Len(out) :
              IF p <= alg.max_num_trials
              THEN out[p] # Stop /\ DOMAIN out[p] = Names(parameters)
              ELSE out[p] = Stop

\* C18 witness: max_num_trials = 2; two suggestions and then Stop.
C18_Witness ==
    /\ alg.cls = "Genetic"
    /\ alg.max_num_trials = 2
    /\ Len(out) = 3
    /\ out[2] # Stop
    /\ out[3] = Stop
    /\ alg.count = 2

\* The outcomes of get_parameters observed so far: the constructor's call and
\* the call on the constructed object.
ObservedParameters ==
    (IF ret = NoCall THEN {} ELSE {ret.outcome}) \cup SeqToSet(out)

\* The 0-based index of the first configuration holding value v under pname.
FirstSeen(hp_iter, pname, v) ==
    (CHOOSE i \in 1..Len(hp_iter) :
        /\ Lookup(hp_iter[i], pname) = v
        /\ \A j \in 1..(i - 1) : Lookup(hp_iter[j], pname) # v) - 1

\* C19: on a non-empty list, get_parameters returns one Choice per key of the
\* first configuration, in key order, whose range holds every value of that
\* key exactly once in first-seen order; if some configuration lacks one of
\* those keys the call, and with it the constructor, raises an Exception
\* naming such a key and the index of the first configuration lacking it.
C19_GetParameters ==
    \A outcome \in ObservedParameters :
        alg.hp_iter # <<>> =>
            LET hp_iter == alg.hp_iter
                keys == Keys(hp_iter[1])
                Lacking(pname) ==
                    {i \in 1..Len(hp_iter) : ~Has(hp_iter[i], pname)}
            IN  IF \A k \in 1..Len(keys) : Lacking(keys[k]) = {}
                THEN /\ "parameters" \in DOMAIN outcome
                     /\ Len(outcome.parameters) = Len(keys)
                     /\ \A k \in 1..Len(keys) :
                           LET p == outcome.parameters[k]
                           IN  /\ p.name = keys[k]
                               /\ p.kind = "Choice"
                               /\ SeqToSet(p.range) =
                                     {Lookup(hp_iter[i], keys[k]) :
                                         i \in 1..Len(hp_iter)}
                               /\ \A a, b \in 1..Len(p.range) :
                                     a < b =>
                                         FirstSeen(hp_iter, keys[k], p.range[a])
                                         < FirstSeen(hp_iter, keys[k], p.range[b])
                ELSE /\ "exception" \in DOMAIN outcome
                     /\ outcome.exception = "Exception"
                     /\ \E k \in 1..Len(keys) : outcome.pname = keys[k]
                     /\ Lacking(outcome.pname) # {}
                     /\ outcome.i + 1 \in Lacking(outcome.pname)
                     /\ \A j \in Lacking(outcome.pname) : outcome.i + 1 <= j
                     /\ out = <<>>

\* C19 witness: three configurations with keys b, a whose b values are
\* 2, 1, 2: the constructed Iterate reports b with range [2, 1] before a.
C19_Witness ==
    /\ Len(alg.hp_iter) = 3
    /\ ret # NoCall
    /\ out = <<Returned(<<Choice("b", <<2, 1>>), Choice("a", <<1>>)>>)>>
    /\ Lookup(alg.hp_iter[3], "b") = 2

\* The raising case: the second configuration lacks b, the third lacks a,
\* and the error names a (the first key) and index 2.
C19_RaisingCase ==
    /\ Len(alg.hp_iter) = 3
    /\ Keys(alg.hp_iter[1]) = <<"a", "b">>
    /\ ~Has(alg.hp_iter[2], "b")
    /\ ret # NoCall
    /\ ret.outcome = NotFound("a", 2)

\* C20: get_best_result returns a row of results, without its Status, whose
\* Objective is the least (lower_is_better) or greatest of the Objectives that
\* are numbers; when no row has such an Objective, or there are no rows, it
\* returns the empty mapping; the algorithm is left as it was.
C20_BestResult ==
    ret # NoCall =>
        LET valid == {k \in 1..Len(results) : ~IsNaN(results[k].Objective)}
        IN  /\ alg = ret.before
            /\ IF valid = {}
               THEN ret.best_result = EmptyDict
               ELSE \E k \in valid :
                       /\ ret.best_result = WithoutStatus(results[k])
                       /\ "Status" \notin DOMAIN ret.best_result
                       /\ \A q \in valid :
                             IF ret.lower_is_better
                             THEN Val(results[k].Objective)
                                  <= Val(results[q].Objective)
                             ELSE Val(results[k].Objective)
                                  >= Val(results[q].Objective)

\* The same statement for tables that have at least one row.
C20_BestResultOfRows ==
    results # <<>> => C20_BestResult

\* A call on a table of three rows, the first without a measured Objective,
\* that returned the third row.
C20_RowsCase ==
    /\ ret # NoCall
    /\ Len(results) = 3
    /\ IsNaN(results[1].Objective)
    /\ ~ret.lower_is_better
    /\ "exception" \notin DOMAIN ret.best_result
    /\ ret.best_result # EmptyDict
    /\ ret.best_result.TrialID = 3

\* A call on a table whose rows all lack a measured Objective.
C20_AllNaNCase ==
    /\ ret # NoCall
    /\ Len(results) = 2
    /\ ret.best_result = EmptyDict

\* C21: once Repeat (wrapping RandomSearch or Iterate, whose Stop is
\* permanent) has returned Stop, every later call returns Stop, whatever
\* wait_for_completion and the results passed.
C21_RepeatStopIsPermanent ==
    alg.cls = "Repeat" =>
        \A p, q \in 1..Len(out) : (p < q /\ out[p] = Stop) => out[q] = Stop

\* The part of C21 that the calls after a Stop do satisfy: none of them
\* returns a configuration, and without wait_for_completion none returns Wait.
C21_NoConfigurationAfterStop ==
    alg.cls = "Repeat" =>
        \A p, q \in 1..Len(out) :
            (p < q /\ out[p] = Stop) =>
                /\ out[q] \in {Stop, Wait}
                /\ ~alg.wait_for_completion => out[q] = Stop

\* A Repeat with wait_for_completion that returned Stop and, on the next
\* call, Wait.
C21_WaitAfterStop ==
    /\ alg.cls = "Repeat"
    /\ alg.wait_for_completion
    /\ Len(out) = 4
    /\ out[3] = Stop
    /\ out[4] = Wait

\* C22 as stated: every PopulationBasedTraining call adds one to count and
\* returns a suggestion; the p-th suggestion carries generation
\* (p - 1) // population_size + 1 and save_to str(p), so that generations
\* never decrease, a finished generation has exactly population_size
\* consecutive suggestions, no two suggestions share a save_to, and the
\* members of generation 1 have lineage '' and load_from ''.
C22_Counter ==
    alg.cls = "PopulationBasedTraining" =>
        /\ alg.count = Len(PBTSuggestions)
        /\ \A p \in 1..Len(PBTSuggestions) :
              /\ PBTSuggestions[p].generation = ((p - 1) \div alg.population_size) + 1
              /\ PBTSuggestions[p].save_to = Str(p)
              /\ PBTSuggestions[p].generation = 1 =>
                    (PBTSuggestions[p].lineage = <<>> /\ PBTSuggestions[p].load_from = "")
        /\ \A p, q \in 1..Len(PBTSuggestions) :
              /\ p < q => PBTSuggestions[p].generation <= PBTSuggestions[q].generation
              /\ p # q => PBTSuggestions[p].save_to # PBTSuggestions[q].save_to
        /\ \A g \in 1..(alg.count \div alg.population_size) :
              Cardinality({p \in 1..Len(PBTSuggestions) : PBTSuggestions[p].generation = g})
                  = alg.population_size

\* The calls (by number) that returned a suggestion of generation g.
CallsOf(g) ==
    {p \in 1..Len(out) : IsSuggestion(out[p]) /\ out[p].generation = g}

\* The calls that belong to generation g by their number.
SlotsOf(g) ==
    ((g - 1) * alg.population_size + 1)..(g * alg.population_size)

\* C22: every PopulationBasedTraining call adds one to count, whether it
\* returns or raises; the suggestion call p returns carries generation
\* (p - 1) // population_size + 1 and save_to str(p), so that generations
\* never decrease, no two suggestions share a save_to, the members of
\* generation 1 have lineage '' and load_from '', and the suggestions of a
\* finished generation g come from calls among its population_size
\* consecutive ones: from all of them when none of these raised.
C22_CounterOfCalls ==
    alg.cls = "PopulationBasedTraining" =>
        /\ alg.count = Len(out)
        /\ \A p \in 1..Len(out) :
              IsSuggestion(out[p]) =>
                 /\ out[p].generation = ((p - 1) \div alg.population_size) + 1
                 /\ out[p].save_to = Str(p)
                 /\ out[p].generation = 1 =>
                       (out[p].lineage = <<>> /\ out[p].load_from = "")
        /\ \A p, q \in 1..Len(PBTSuggestions) :
              /\ p < q => PBTSuggestions[p].generation <= PBTSuggestions[q].generation
              /\ p # q => PBTSuggestions[p].save_to # PBTSuggestions[q].save_to
        /\ \A g \in 1..(Len(out) \div alg.population_size) :
              /\ CallsOf(g) \subseteq SlotsOf(g)
              /\ (\A p \in SlotsOf(g) : IsSuggestion(out[p])) =>
                    CallsOf(g) = SlotsOf(g)

\* C22 witness: in a population of two the third call, made before any
\* trial completed, raised; the fourth, made when both trials of
\* generation 1 were COMPLETED, returned the only suggestion of generation
\* 2, saved to "4".
C22_Witness ==
    /\ alg.cls = "PopulationBasedTraining"
    /\ alg.population_size = 2
    /\ alg.count = 4
    /\ out[3] = IndexError
    /\ IsSuggestion(out[4])
    /\ out[4].generation = 2
    /\ out[4].save_to = "4"

\* A case of C22 without a call that raised: a population of five after two
\* full generations.
C22_FullGenerations ==
    /\ alg.cls = "PopulationBasedTraining"
    /\ alg.population_size = MinResampling
    /\ alg.count = 2 * MinResampling
    /\ \A p \in 1..Len(out) : IsSuggestion(out[p])
    /\ out[MinResampling].generation = 1
    /\ out[MinResampling + 1].generation = 2
    /\ out[2 * MinResampling].generation = 2
    /\ out[2 * MinResampling].save_to = Str(2 * MinResampling)

\* A call of the resampling slot that raised: in a population of five no
\* trial of generation 1 was COMPLETED when the last member of generation 2
\* was asked for.
C22_ResamplingRaised ==
    /\ alg.cls = "PopulationBasedTraining"
    /\ alg.population_size = MinResampling
    /\ alg.count = 2 * MinResampling
    /\ results = <<>>
    /\ out[2 * MinResampling] = IndexError

\* A suggestion made from a part of the generation before: in a population
\* of two the third call, given one COMPLETED row, returned.
C23_PartialGeneration ==
    /\ alg.cls = "PopulationBasedTraining"
    /\ alg.population_size = 2
    /\ alg.count = 3
    /\ ret # NoCall
    /\ ~ret.complete
    /\ IsSuggestion(ret.suggestion)

\* The positions of the COMPLETED rows of generation g (in the order of
\* results) that sort_values(by='Objective', ascending) can place at one of
\* the sorted positions in `ranks`.
\* Whether the float x lies within [lo, hi], lo and hi natural numbers.
FloatWithin(x, lo, hi) == FloatClip(x, lo, hi) = x

SortedAt(rows, g, ascending, ranks) ==
    UNION {RowsAtRank(PBT_generation_df(rows, g), ascending, i) : i \in ranks}

\* C23: the latest call, of a generation g >= 2, made in slot
\* s = (count - 1) mod population_size with generation g - 1 fully COMPLETED
\* in the rows it was given (no row of that generation is added after
\* that), returns a suggestion:
\* if 5 * s < 4 * population_size its parameter values are those of the row
\* at sorted position s of generation g - 1 (ascending iff lower_is_better);
\* otherwise the row it loads from is one of the first population_size // 5
\* sorted rows and each Continuous or Discrete value lies within the
\* override range of the parameter if there is one, else within its declared
\* range.
C23_TruncationSelection ==
    (alg.cls = "PopulationBasedTraining" /\ ret # NoCall) =>
        LET t == ret.suggestion
            g == alg.generation
            ps == alg.population_size
            s == (alg.count - 1) % ps
            generation_df == PBT_generation_df(results, g - 1)
        IN  (g >= 2 /\ ret.complete) =>
              /\ Len(generation_df) = ps
              /\ IsSuggestion(t)
              /\ t.generation = g
              /\ IF 5 * s < 4 * ps
                 THEN \E k \in SortedAt(results, g - 1, ret.lower_is_better, {s}) :
                         \A nm \in Names(parameters) :
                             t[nm] = generation_df[k].params[nm]
                 ELSE /\ \E k \in SortedAt(results, g - 1, ret.lower_is_better,
                                           0..((ps \div 5) - 1)) :
                            t.load_from = generation_df[k].params.save_to
                      /\ \A j \in 1..Len(parameters) :
                            parameters[j].kind \in {"Continuous", "Discrete"} =>
                               LET nm == parameters[j].name
                                   range == IF nm \in DOMAIN alg.parameter_range
                                            THEN alg.parameter_range[nm]
                                            ELSE parameters[j].range
                               IN  IF parameters[j].kind = "Discrete"
                                   THEN /\ SeqMin(range) <= t[nm]
                                        /\ t[nm] <= SeqMax(range)
                                   ELSE FloatWithin(t[nm], SeqMin(range),
                                                    SeqMax(range))

\* C23 witness: the last member of generation 2 of a population of five is
\* resampled from trial 1, the best of generation 1, and its d is perturbed
\* to 1, below the declared range [2, 3] and inside the override [1, 4].
C23_Witness ==
    /\ alg.cls = "PopulationBasedTraining"
    /\ alg.population_size = MinResampling
    /\ alg.count = 2 * MinResampling
    /\ ret # NoCall
    /\ ret.complete
    /\ "d" \in DOMAIN ret.suggestion
    /\ ret.suggestion.generation = 2
    /\ ret.suggestion.load_from = "1"
    /\ ret.suggestion.d = 1

\* A Continuous case of C23: the last member of generation 2 is resampled
\* and its c is 3 * 0.8 = 2.4000000000000004, inside the declared range
\* [2, 3].
C23_ContinuousCase ==
    /\ alg.cls = "PopulationBasedTraining"
    /\ alg.count = 2 * MinResampling
    /\ ret # NoCall
    /\ ret.complete
    /\ "c" \in DOMAIN ret.suggestion
    /\ ret.suggestion.generation = 2
    /\ ret.suggestion.c = Double(19660, 209715, 52429, 49)

\* A suggestion of slot 1 of generation 3 in a population of two, asked with
\* lower_is_better false: it continues trial 3, the worse of generation 2.
C23_DescendingCase ==
    /\ alg.cls = "PopulationBasedTraining"
    /\ alg.population_size = 2
    /\ alg.count = 6
    /\ ret # NoCall
    /\ ~ret.lower_is_better
    /\ ret.complete
    /\ IsSuggestion(ret.suggestion)
    /\ ret.suggestion.load_from = "3"

\* The rows of `rows` with Status COMPLETED and parameter values cfg.
CompletedWith(rows, cfg) ==
    {k \in 1..Len(rows) : rows[k].Status = "COMPLETED" /\ rows[k].params = cfg}

\* Those of them whose Objective is a number.
MeasuredWith(rows, cfg) ==
    {k \in CompletedWith(rows, cfg) : ~IsNaN(rows[k].Objective)}

\* The sum of the Objectives of the rows at the positions in S.
RECURSIVE SumOver(_, _)
SumOver(rows, S) ==
    IF S = {} THEN 0
    ELSE LET k == CHOOSE q \in S : TRUE
         IN  Val(rows[k].Objective) + SumOver(rows, S \ {k})

\* Whether `passed` holds exactly one row for every parameter tuple cfg of
\* `rows` with at least num_times rows in Counted(cfg), none for any other
\* tuple, and each Objective is the mean over the measured rows of its tuple.
AggregatesOf(passed, rows, num_times, Counted(_)) ==
    LET tuples == {rows[k].params : k \in 1..Len(rows)}
    IN  /\ \A g \in 1..Len(passed) : passed[g].params \in tuples
        /\ \A cfg \in tuples :
              LET at == {g \in 1..Len(passed) : passed[g].params = cfg}
                  measured == MeasuredWith(rows, cfg)
              IN  IF Cardinality(Counted(cfg)) >= num_times
                  THEN /\ Cardinality(at) = 1
                       /\ \A g \in at :
                             IF measured = {}
                             THEN IsNaN(passed[g].Objective)
                             ELSE /\ ~IsNaN(passed[g].Objective)
                                  /\ passed[g].Objective.num * Cardinality(measured)
                                        = SumOver(rows, measured)
                                            * passed[g].Objective.den
                  ELSE at = {}

\* C24: when Repeat consults the wrapped algorithm with a non-empty table,
\* the results it passes hold exactly one row per parameter tuple with at
\* least num_times COMPLETED rows, its Objective their mean, and no row for
\* any other tuple; rows of another Status count for nothing; with an empty
\* table nothing is passed.
C24_Aggregation ==
    (alg.cls = "Repeat" /\ ret # NoCall /\ ret.passed # NotConsulted) =>
        IF Len(ret.results) = 0
        THEN ret.passed.results = <<>>
        ELSE AggregatesOf(ret.passed.results, ret.results, alg.num_times,
                          LAMBDA cfg : CompletedWith(ret.results, cfg))

\* What the passed results do satisfy: the rows counted towards num_times
\* are the COMPLETED rows whose Objective is a number.
C24_AggregationOfMeasured ==
    (alg.cls = "Repeat" /\ ret # NoCall /\ ret.passed # NotConsulted) =>
        IF Len(ret.results) = 0
        THEN ret.passed.results = <<>>
        ELSE AggregatesOf(ret.passed.results, ret.results, alg.num_times,
                          LAMBDA cfg : MeasuredWith(ret.results, cfg))

\* A consultation with num_times = 2 whose table holds two COMPLETED rows of
\* one configuration, one of them without a measured Objective: nothing is
\* passed for that configuration.
C24_UnmeasuredCase ==
    /\ alg.cls = "Repeat"
    /\ alg.num_times = 2
    /\ ret # NoCall
    /\ ret.passed = Passed(<<>>)
    /\ Len(ret.results) = 2
    /\ \E cfg \in SampledConfigs(parameters) :
          /\ Cardinality(CompletedWith(ret.results, cfg)) = 2
          /\ Cardinality(MeasuredWith(ret.results, cfg)) = 1

\* A consultation that passed the mean 3/2 of two COMPLETED rows, an
\* INTERMEDIATE row of the same configuration left out.
C24_MeanCase ==
    /\ alg.cls = "Repeat"
    /\ alg.num_times = 2
    /\ ret # NoCall
    /\ Len(ret.results) = 3
    /\ \E k \in 1..3 : ret.results[k].Status = "INTERMEDIATE"
    /\ ret.passed # NotConsulted
    /\ Len(ret.passed.results) = 1
    /\ ret.passed.results[1].Objective = [num |-> 3, den |-> 2]

\* The seed configuration the LocalSearch study was constructed with.
InitialSeed ==
    (CHOOSE study \in LocalStudies : study.parameters = parameters).seed

\* Whether value v of parameter p is a single step away from value w within
\* the declared range: another value of a Choice, the next or the previous
\* rank of an Ordinal, a value between the bounds of a Discrete or a
\* Continuous.
SingleStep(p, v, w) ==
    /\ v # w
    /\ IF p.kind = "Choice" THEN v \in SeqToSet(p.range)
       ELSE IF p.kind = "Ordinal"
       THEN /\ v \in SeqToSet(p.range)
            /\ IndexOf(p.range, v) - IndexOf(p.range, w) \in {0 - 1, 1}
       ELSE IF p.kind = "Discrete"
       THEN SeqMin(p.range) <= v /\ v <= SeqMax(p.range)
       ELSE FloatWithin(v, SeqMin(p.range), SeqMax(p.range))

\* C25: the first batch of a LocalSearch is its seed configuration; a later
\* call that builds a batch other than Stop continues from the parameter
\* values of a best COMPLETED row (of the initial seed while there is none)
\* and returns a configuration that differs from that seed in exactly one
\* parameter, by a single step within the parameter's declared range.
C25_SingleStep ==
    [][(alg.cls = "LocalSearch" /\ Len(out') = Len(out) + 1) =>
          LET t == out'[Len(out')]
              completed == Completed(results)
              seed == alg'.seed_configuration
              changed == {j \in 1..Len(parameters) :
                             t[parameters[j].name] # seed[parameters[j].name]}
          IN  /\ Len(out) < alg.repeat_trials => t = InitialSeed
              /\ (alg.count >= 1 /\ alg.next_trial = <<>> /\ t # Stop) =>
                    /\ IF completed = <<>>
                       THEN seed = InitialSeed
                       ELSE \E k \in 1..Len(completed) :
                               /\ \A q \in 1..Len(completed) :
                                     ~SortsBefore(completed[q].Objective,
                                                  completed[k].Objective,
                                                  ret'.lower_is_better)
                               /\ seed = [nm \in Names(parameters) |->
                                             completed[k].params[nm]]
                    /\ DOMAIN t = Names(parameters)
                    /\ Cardinality(changed) = 1
                    /\ \A j \in changed :
                          SingleStep(parameters[j], t[parameters[j].name],
                                     seed[parameters[j].name])]_vars

\* C25 witness: with parameters a and b and seed a = 1, b = 4, the second
\* trial (a = 2, b = 4) completed as the best, and the third call returned
\* a = 2, b = 3: one step from the new seed, two from the initial one.
C25_Witness ==
    /\ alg.cls = "LocalSearch"
    /\ alg.repeat_trials = 1
    /\ Len(out) = 3
    /\ Len(Completed(results)) = 2
    /\ ret # NoCall
    /\ ret.lower_is_better
    /\ alg.seed_configuration = [a |-> 2, b |-> 4]
    /\ out[3] = [a |-> 2, b |-> 3]

\* A Continuous case of C25: with seed c = 3 in [1, 4] the second call
\* returned 3 * 1.2 = 3.5999999999999996, that trial completed, and the
\* third call returned the new seed times 1.2, clipped to 4.
C25_ContinuousCase ==
    /\ alg.cls = "LocalSearch"
    /\ Len(out) = 3
    /\ "c" \in DOMAIN out[1]
    /\ out[2].c = Double(29491, 52428, 209715, 49)
    /\ out[3].c = FloatOfNat(4)

\* A case outside C25: every COMPLETED row has a not-a-number Objective and
\* a call that looks up the best row raised; no configuration was generated.
C25_RaisingCase ==
    /\ alg.cls = "LocalSearch"
    /\ ret # NoCall
    /\ ret.suggestion = KeyError
    /\ alg.count > Len(out)

\* C26: a trial whose best-so-far Objective is a number and at least as good
\* as the best-so-far Objective of every other trial that has one is not
\* stopped, whatever min_iterations, min_trials and the table are.
C26_LeaderNotStopped ==
    (alg.cls = "MedianStoppingRule" /\ ret # NoCall) =>
        LET lib == ret.lower_is_better
            others == {results[k].TrialID : k \in 1..Len(results)} \ {ret.trial}
        IN  (/\ BestSoFar(ret.trial, lib) # {}
             /\ \A v \in BestSoFar(ret.trial, lib) :
                   \A t \in others : \A w \in BestSoFar(t, lib) :
                       IF lib THEN v <= w ELSE v >= w)
            => ~ret.decision

\* C26 witness: trials 1, 2, 3 reported 1, 2, 3; with min_iterations = 1,
\* min_trials = 2 and lower_is_better, trial 1 is compared with the median
\* 5/2 of the other two and not stopped.
C26_Witness ==
    /\ alg.cls = "MedianStoppingRule"
    /\ alg.min_iterations = 1
    /\ alg.min_trials = 2
    /\ ret # NoCall
    /\ ret.trial = 1
    /\ ret.lower_is_better
    /\ Len(results) = 3
    /\ \A k \in 1..3 : results[k].TrialID = k /\ results[k].Objective = Num(k)
    /\ ~ret.decision

=============================================================================
